---- MODULE Spec2Model ----
(***************************************************************************)
(* A model of the market-state synchronisation core of                     *)
(* polymarket-trade-bot: DeltaProcessor, MessageQueue.process and the       *)
(* WebSocketConnection state machine, with the pure computations around    *)
(* them (reconnect backoff, BookBuilder.build, Aggregator.aggregate).       *)
(*                                                                         *)
(* The specifications share the module, each leaving the other              *)
(* components' variables untouched:                                         *)
(*   SpecDP  DeltaProcessor.snapshot / DeltaProcessor.delta on one map      *)
(*   SpecMQ  MessageQueue.push + MessageQueue.process on a context          *)
(*   SpecWS  one WebSocketConnection, its socket and its two timers         *)
(*   SpecWSThrow  the same, for an owner one of whose callbacks throws      *)
(*   SpecBackoff  the reconnect delay computation                           *)
(*   SpecBook     BookBuilder.build followed by Aggregator.aggregate        *)
(*   SpecPrice    BtcAggregatedPriceService and the frames of its sources   *)
(***************************************************************************)
EXTENDS Integers, Sequences, FiniteSets, TLC

VARIABLES
    \* ---- DeltaProcessor (SpecDP) ----
    dpMap,      \* the IPriceMap the processor was last handed / returned
    dpPrev,     \* the map handed to the last call (the caller's map)
    dpOp,       \* the last call: [kind, data]; kind "none" between calls
    \* ---- MessageQueue.process and its context (SpecMQ) ----
    priceMaps,              \* context.priceMaps: assetId -> IPriceMap
    assetLastBookTs,        \* context.assetLastBookTs: Map assetId -> number
    snapshotRequired,       \* context.snapshotRequired: Set of assetIds
    marketTickSizeByAsset,  \* context.marketTickSizeByAsset: Map assetId -> tick
    results,                \* what the last process() call returned
    mqPhase,                \* "idle", or "processed" right after a process() call;
                            \* "dropped" / "threw": the message handler returned
                            \* early / ended by an exception (SpecQuery)
    mqBatch,                \* history: the events the last process() call drained
    mqPrev,                 \* history: the context that call started from
    mqMaxSnapshotTs,        \* history: per asset, max ts of the snapshots applied
    mqMaxAppliedTs,         \* history: per asset, max ts of all events applied
    queried,                \* a getOrderBookSnapshotByTokenId call that is
                            \* returning, with its outcome; NoQuery otherwise
    \* ---- WebSocketConnection, its socket and its timers (SpecWS) ----
    url,                \* options.url
    state,              \* this.state: a ConnectionState
    wsClient,           \* this.wsClient: "null", or the readyState of the socket
                        \* it references (listeners are attached to that socket)
    intervalTimer,      \* this.intervalTimer is armed
    tickIn,             \* time until the armed interval timer fires next
    reconnectTimer,     \* this.reconnectTimer is armed
    lastPingTs,         \* this.lastPingTs: 0, or 1 for any Date.now() value
    pongAge,            \* Date.now() - this.lastPongTs, saturating at Expired
    reconnectAttempts,  \* this.reconnectAttempts
    maxReconnectAttempts,   \* options.maxReconnectAttempts (0 = no cap)
    throwing,           \* the callback invocations <<callback, argument>>
                        \* from which the owner's code throws
    wsOp,               \* the handler that ran last
    notified,           \* states it handed to onStateChange, in order
    sent,               \* what it wrote to the socket, in order
    created,            \* it constructed a new WebSocket
    raised,             \* an exception escaped it
    returned,           \* what sendMessage returned ("none" for other handlers)
    scheduledSinceOpen,     \* history: reconnects scheduled since the last open
    scheduledSinceRestart,  \* history: reconnects scheduled since the last
                            \* open, reconnect() or reset() out of CLOSED
    \* ---- pure computations, each applied to inputs drawn from small sets ----
    backoff,            \* the last reconnect delay computed, with its inputs
    orderBook,          \* the last book built (and aggregated), with its inputs
    \* ---- BtcAggregatedPriceService (SpecPrice) ----
    sourcePrices,           \* this.sourcePrices: Map source id -> raw price
    sourceTypes,            \* this.sourceTypes: Map source id -> "USDT" | "USD"
    usdtRate,               \* this.usdtRate
    hasValidUsdtRate,       \* this.hasValidUsdtRate
    currentPrice,           \* this.currentPrice
    lastUpdateTimestamp,    \* this.lastUpdateTimestamp
    isStarted,              \* this.isStarted
    connections,            \* this.connections: Map source id -> the state of
                            \* its WebSocketConnection
    pxOp,                   \* history: the method that ran last, what it found
    emitted,                \* history: what it handed to onPriceUpdate, in order
    \* ---- Projector.project and the standalone OrderBook ----
    projection,             \* the last projection made, with its inputs
    ob,                     \* OrderBook: [bids, asks], Maps price -> quantity
    obOp                    \* history: the last call on the OrderBook

dpVars == <<dpMap, dpPrev, dpOp>>
mqVars == <<priceMaps, assetLastBookTs, snapshotRequired, marketTickSizeByAsset,
            results, mqPhase, mqBatch, mqPrev, mqMaxSnapshotTs, mqMaxAppliedTs,
            queried>>
wsVars == <<url, state, wsClient, intervalTimer, tickIn, reconnectTimer, lastPingTs,
            pongAge, reconnectAttempts, maxReconnectAttempts, throwing,
            wsOp, notified, sent, created, raised, returned,
            scheduledSinceOpen, scheduledSinceRestart>>
fnVars == <<backoff, orderBook>>
pxVars == <<sourcePrices, sourceTypes, usdtRate, hasValidUsdtRate, currentPrice,
            lastUpdateTimestamp, isStarted, connections, pxOp, emitted>>
exVars == <<projection, ob, obOp>>
vars == <<dpVars, mqVars, wsVars, fnVars, pxVars, exVars>>

(***************************************************************************)
(* Bounds                                                                  *)
(***************************************************************************)
MaxLevels == 1      \* levels per side of a snapshot handed to DeltaProcessor
MaxChanges == 2     \* price changes in one delta handed to DeltaProcessor
MaxTs == 2          \* event timestamps are 1..MaxTs
MaxBatch == 2       \* events drained by one process() call

(***************************************************************************)
(* Strings.  A decimal string such as "0.60" is the record                 *)
(* [int |-> 0, frac |-> <<6, 0>>]: its integer part and the digits after   *)
(* the decimal point (frac = <<>>: no decimal point).  "0.6" and "0.60"    *)
(* are different strings (different Map keys) with the same number.        *)
(***************************************************************************)
Dec(i, f) == [int |-> i, frac |-> f]

\* parseFloat(s) === 0 for a decimal string s
ParseFloatIsZero(s) == s.int = 0 /\ \A i \in 1..Len(s.frac) : s.frac[i] = 0

\* String.prototype.toUpperCase on the side strings of the wire
ToUpperCase(s) ==
    CASE s = "buy" -> "BUY"
      [] s = "sell" -> "SELL"
      [] OTHER -> s

Prices == {Dec(0, <<6, 0>>), Dec(0, <<6, 5>>)}
Sizes == {Dec(0, <<>>), Dec(0, <<0>>), Dec(5, <<>>)}
\* the sizes a snapshot level may carry ("0" and "5")
SnapshotSizes == {Dec(0, <<>>), Dec(5, <<>>)}
\* "NONE" stands for a change without a side field (side?: string)
Sides == {"BUY", "buy", "SELL", "NONE"}

(***************************************************************************)
(* Map<string, string>: a function from the keys present to their values.  *)
(***************************************************************************)
EmptyMap == [k \in {} |-> Dec(0, <<>>)]
MapSet(m, k, v) == [x \in (DOMAIN m) \cup {k} |-> IF x = k THEN v ELSE m[x]]
MapDelete(m, k) == [x \in (DOMAIN m) \ {k} |-> m[x]]
MapHas(m, k) == k \in DOMAIN m

\* IPriceMap | undefined: the record [bids, asks], or NoMap for undefined
NoMap == [undefined |-> TRUE]
IsMap(pm) == "bids" \in DOMAIN pm

(***************************************************************************)
(* DeltaProcessor                                                          *)
(***************************************************************************)
\* DeltaProcessor._clone
Clone(priceMap) ==
    [bids |-> IF IsMap(priceMap) THEN priceMap.bids ELSE EmptyMap,
     asks |-> IF IsMap(priceMap) THEN priceMap.asks ELSE EmptyMap]

\* variant: a removal is recognised by the text "0" instead of the number 0
ApplyChangeStringZero(next, change) ==
    LET isRemoval == change.size = Dec(0, <<>>)
        isBuy == change.side # "NONE" /\ ToUpperCase(change.side) = "BUY"
    IN  IF isBuy
          THEN IF isRemoval
                 THEN [next EXCEPT !.bids = MapDelete(next.bids, change.price)]
                 ELSE [next EXCEPT !.bids = MapSet(next.bids, change.price, change.size)]
          ELSE IF isRemoval
                 THEN [next EXCEPT !.asks = MapDelete(next.asks, change.price)]
                 ELSE [next EXCEPT !.asks = MapSet(next.asks, change.price, change.size)]

\* one iteration of delta's forEach over price_changes
ApplyChange(next, change) ==
    LET isRemoval == ParseFloatIsZero(change.size)
        isBuy == change.side # "NONE" /\ ToUpperCase(change.side) = "BUY"
    IN  IF isBuy
          THEN IF isRemoval
                 THEN [next EXCEPT !.bids = MapDelete(next.bids, change.price)]
                 ELSE [next EXCEPT !.bids = MapSet(next.bids, change.price, change.size)]
          ELSE IF isRemoval
                 THEN [next EXCEPT !.asks = MapDelete(next.asks, change.price)]
                 ELSE [next EXCEPT !.asks = MapSet(next.asks, change.price, change.size)]

RECURSIVE ApplyChanges(_, _)
ApplyChanges(next, changes) ==
    IF changes = <<>> THEN next
    ELSE ApplyChanges(ApplyChange(next, Head(changes)), Tail(changes))

\* DeltaProcessor.delta(current, delta): {next, changed}
Delta(current, delta) ==
    [next |-> ApplyChanges(Clone(current), delta.price_changes),
     changed |-> {delta.price_changes[i].price : i \in 1..Len(delta.price_changes)}]

\* snapshot.bids?.length ?? 0 and snapshot.bids![i]
SnapshotLevels(snapshot, field) ==
    IF field \in DOMAIN snapshot THEN snapshot[field] ELSE <<>>

RECURSIVE SetLevels(_, _)
SetLevels(m, levels) ==
    IF levels = <<>> THEN m
    ELSE SetLevels(MapSet(m, Head(levels).price, Head(levels).size), Tail(levels))

\* DeltaProcessor.snapshot(snapshot): {next, changed}
Snapshot(snapshot) ==
    LET next == [bids |-> SetLevels(EmptyMap, SnapshotLevels(snapshot, "bids")),
                 asks |-> SetLevels(EmptyMap, SnapshotLevels(snapshot, "asks"))]
    IN  [next |-> next, changed |-> (DOMAIN next.bids) \cup (DOMAIN next.asks)]

(***************************************************************************)
(* SpecDP: the two DeltaProcessor functions applied, in any order, to the  *)
(* map a caller keeps.                                                      *)
(***************************************************************************)
SeqsUpTo(S, n) == UNION {[1..k -> S] : k \in 0..n}

DPLevels == [price : Prices, size : SnapshotSizes]
DPSnapshots ==
    [bids : SeqsUpTo(DPLevels, MaxLevels), asks : SeqsUpTo(DPLevels, MaxLevels)]
      \cup [asks : SeqsUpTo(DPLevels, MaxLevels)]
DPChanges == [price : Prices, size : Sizes, side : Sides]
DPDeltas == [price_changes : SeqsUpTo(DPChanges, MaxChanges) \ {<<>>}]

DPInit ==
    /\ dpMap = NoMap
    /\ dpPrev = NoMap
    /\ dpOp = [kind |-> "none"]

\* a caller hands a snapshot to DeltaProcessor.snapshot and keeps .next
DPSnapshot ==
    /\ dpOp.kind = "none"
    /\ \E s \in DPSnapshots :
         /\ dpPrev' = dpMap
         /\ dpMap' = Snapshot(s).next
         /\ dpOp' = [kind |-> "snapshot", data |-> s]
    /\ UNCHANGED <<mqVars, wsVars, fnVars, pxVars, exVars>>

\* a caller hands its map and a delta to DeltaProcessor.delta and keeps .next
DPDelta ==
    /\ dpOp.kind = "none"
    /\ \E d \in DPDeltas :
         /\ dpPrev' = dpMap
         /\ dpMap' = Delta(dpMap, d).next
         /\ dpOp' = [kind |-> "delta", data |-> d]
    /\ UNCHANGED <<mqVars, wsVars, fnVars, pxVars, exVars>>

\* the call has returned; the caller goes on with the map it kept
DPReturn ==
    /\ dpOp.kind # "none"
    /\ dpOp' = [kind |-> "none"]
    /\ dpPrev' = dpMap
    /\ UNCHANGED <<dpMap, mqVars, wsVars, fnVars, pxVars, exVars>>

DPNext == DPSnapshot \/ DPDelta \/ DPReturn



(***************************************************************************)
(* MessageQueue.process                                                    *)
(*                                                                         *)
(* A context is the record of the four collections process() is handed.    *)
(* Ticks are in thousandths: 10 is 0.01, 1 is 0.001.                       *)
(***************************************************************************)
DefaultTick == 10
SmallTick == 1

Max2(a, b) == IF a >= b THEN a ELSE b

\* Map.get(k) ?? d
GetOr(m, k, d) == IF k \in DOMAIN m THEN m[k] ELSE d

\* utils.getPrecisionFromPrice
GetPrecisionFromPrice(price) == Len(price.frac)

\* levels?.some(l => getPrecisionFromPrice(l.price) === 3)
SomeSmallTick(data, field) ==
    /\ field \in DOMAIN data
    /\ \E i \in 1..Len(data[field]) : GetPrecisionFromPrice(data[field][i].price) = 3

\* variant: the tick follows the precision of the last snapshot, finer or
\* coarser
DetectTickFollowsSnapshot(tickMap, event) ==
    IF event.type # "book" THEN tickMap
    ELSE IF SomeSmallTick(event.data, "asks") \/ SomeSmallTick(event.data, "bids")
      THEN MapSet(tickMap, event.assetId, SmallTick)
      ELSE MapSet(tickMap, event.assetId, DefaultTick)

\* the tick-size detection done on a 'book' event while grouping
DetectTick(tickMap, event) ==
    IF event.type = "book" /\ GetOr(tickMap, event.assetId, DefaultTick) = DefaultTick
         /\ (SomeSmallTick(event.data, "asks") \/ SomeSmallTick(event.data, "bids"))
      THEN MapSet(tickMap, event.assetId, SmallTick)
      ELSE tickMap

RECURSIVE DetectTicks(_, _)
DetectTicks(tickMap, events) ==
    IF events = <<>> THEN tickMap
    ELSE DetectTicks(DetectTick(tickMap, Head(events)), Tail(events))

\* the keys of `grouped`, in the order the events.forEach creates them
RECURSIVE GroupOrder(_, _)
GroupOrder(events, seen) ==
    IF events = <<>> THEN <<>>
    ELSE IF Head(events).assetId \in seen
           THEN GroupOrder(Tail(events), seen)
           ELSE <<Head(events).assetId>>
                  \o GroupOrder(Tail(events), seen \cup {Head(events).assetId})

OfType(events, assetId, type) ==
    LET Test(e) == e.assetId = assetId /\ e.type = type
    IN  SelectSeq(events, Test)

\* grouped[assetId]; nothing is ever pushed to `minified`
Group(events, assetId) ==
    [snapshots |-> OfType(events, assetId, "book"),
     deltas |-> OfType(events, assetId, "price_change"),
     last |-> OfType(events, assetId, "last-trade-price"),
     ticks |-> OfType(events, assetId, "tick-size-change"),
     minified |-> <<>>]

\* variant: a snapshot older than the last applied timestamp is skipped
ApplySnapshotEventIfNewer(st, event) ==
    IF event.ts < st.lastTs
      THEN st
      ELSE [map |-> Snapshot(event.data).next,
            lastTs |-> Max2(st.lastTs, event.ts),
            assigned |-> TRUE]

\* variant: lastTs takes the snapshot's timestamp instead of the maximum
ApplySnapshotEventLastTs(st, event) ==
    [map |-> Snapshot(event.data).next,
     lastTs |-> event.ts,
     assigned |-> TRUE]

\* variant: a delta as old as the last applied timestamp is applied
ApplyDeltaEventStrictlyOlder(st, event) ==
    IF event.ts < st.lastTs
      THEN st
      ELSE [st EXCEPT !.map = Delta(st.map, event.data).next, !.assigned = TRUE]

\* body of group.snapshots.forEach.  st is [map, lastTs, assigned]: the value of
\* context.priceMaps[assetId], the local lastTs, and whether priceMaps[assetId]
\* has been assigned by this call
ApplySnapshotEvent(st, event) ==
    [map |-> Snapshot(event.data).next,
     lastTs |-> Max2(st.lastTs, event.ts),
     assigned |-> TRUE]

\* variant: an applied delta advances lastTs
ApplyDeltaEventAdvances(st, event) ==
    IF event.ts <= st.lastTs
      THEN st
      ELSE [map |-> Delta(st.map, event.data).next,
            lastTs |-> event.ts,
            assigned |-> TRUE]

\* body of group.deltas.forEach
ApplyDeltaEvent(st, event) ==
    IF event.ts <= st.lastTs
      THEN st
      ELSE [st EXCEPT !.map = Delta(st.map, event.data).next, !.assigned = TRUE]

RECURSIVE ApplySnapshotEvents(_, _)
ApplySnapshotEvents(st, events) ==
    IF events = <<>> THEN st
    ELSE ApplySnapshotEvents(ApplySnapshotEvent(st, Head(events)), Tail(events))

RECURSIVE ApplyDeltaEvents(_, _)
ApplyDeltaEvents(st, events) ==
    IF events = <<>> THEN st
    ELSE ApplyDeltaEvents(ApplyDeltaEvent(st, Head(events)), Tail(events))

\* the project callback OrderBookManager passes: always {status: 'success', data}
Project(ctx, assetId, type) ==
    [status |-> "success",
     data |-> IF assetId \in DOMAIN ctx.priceMaps
                THEN ctx.priceMaps[assetId]
                ELSE [bids |-> EmptyMap, asks |-> EmptyMap]]

PassThrough(events, type, assetId) ==
    [i \in 1..Len(events) |-> [type |-> type, assetId |-> assetId, ts |-> events[i].ts]]

\* variant: the deltas of the batch are applied before its snapshots
ProcessAssetDeltasFirst(acc, assetId, group) ==
    LET ctx == acc.ctx
        st0 == [map |-> GetOr(ctx.priceMaps, assetId, NoMap),
                lastTs |-> GetOr(ctx.assetLastBookTs, assetId, 0),
                assigned |-> FALSE]
        st1 == ApplyDeltaEvents(st0, group.deltas)
        st2 == ApplySnapshotEvents(st1, group.snapshots)
        hasUpdate == group.snapshots # <<>> \/ group.deltas # <<>>
        ctx1 == [ctx EXCEPT
                   !.priceMaps = IF st2.assigned THEN MapSet(@, assetId, st2.map) ELSE @,
                   !.snapshotRequired =
                       IF group.snapshots # <<>> THEN @ \cup {assetId} ELSE @,
                   !.assetLastBookTs =
                       IF hasUpdate THEN MapSet(@, assetId, st2.lastTs) ELSE @]
        projected == Project(ctx1, assetId, "book")
        book == IF hasUpdate /\ projected.status = "success"
                  THEN <<[type |-> "snapshot", assetId |-> assetId,
                          data |-> projected.data]>>
                  ELSE <<>>
    IN  [ctx |-> ctx1,
         results |-> acc.results \o book
                       \o PassThrough(group.last, "last-trade-price", assetId)
                       \o PassThrough(group.ticks, "tick-size-change", assetId)]

\* the body of Object.entries(grouped).forEach: acc is [ctx, results]
ProcessAsset(acc, assetId, group) ==
    LET ctx == acc.ctx
        st0 == [map |-> GetOr(ctx.priceMaps, assetId, NoMap),
                lastTs |-> GetOr(ctx.assetLastBookTs, assetId, 0),
                assigned |-> FALSE]
        st1 == ApplySnapshotEvents(st0, group.snapshots)
        st2 == ApplyDeltaEvents(st1, group.deltas)
        hasUpdate == group.snapshots # <<>> \/ group.deltas # <<>>
        ctx1 == [ctx EXCEPT
                   !.priceMaps = IF st2.assigned THEN MapSet(@, assetId, st2.map) ELSE @,
                   !.snapshotRequired =
                       IF group.snapshots # <<>> THEN @ \cup {assetId} ELSE @,
                   !.assetLastBookTs =
                       IF hasUpdate THEN MapSet(@, assetId, st2.lastTs) ELSE @]
        projected == Project(ctx1, assetId, "book")
        book == IF hasUpdate /\ projected.status = "success"
                  THEN <<[type |-> "snapshot", assetId |-> assetId,
                          data |-> projected.data]>>
                  ELSE <<>>
    IN  [ctx |-> ctx1,
         results |-> acc.results \o book
                       \o PassThrough(group.last, "last-trade-price", assetId)
                       \o PassThrough(group.ticks, "tick-size-change", assetId)]

RECURSIVE ProcessAssets(_, _, _)
ProcessAssets(acc, order, events) ==
    IF order = <<>> THEN acc
    ELSE ProcessAssets(ProcessAsset(acc, Head(order), Group(events, Head(order))),
                       Tail(order), events)

\* MessageQueue.process(context) on a queue holding `events`: [ctx, results]
Process(ctx, events) ==
    IF events = <<>>
      THEN [ctx |-> ctx, results |-> <<>>]
      ELSE ProcessAssets(
             [ctx |-> [ctx EXCEPT !.marketTickSizeByAsset = DetectTicks(@, events)],
              results |-> <<>>],
             GroupOrder(events, {}), events)

(***************************************************************************)
(* SpecMQ: the message handler's push-then-process on batches of events    *)
(***************************************************************************)
Ts == 1..MaxTs
Assets == {"a1", "a2"}

Level(p, sz) == [price |-> p, size |-> sz]
Change(p, sz, sd) == [price |-> p, size |-> sz, side |-> sd]

\* {bids:[["0.60","5"]], asks:[["0.65","5"]]}
SnapA == [bids |-> <<Level(Dec(0, <<6, 0>>), Dec(5, <<>>))>>,
          asks |-> <<Level(Dec(0, <<6, 5>>), Dec(5, <<>>))>>]
\* {bids:[["0.605","5"]], asks:[]}: a price with three decimals
SnapB == [bids |-> <<Level(Dec(0, <<6, 0, 5>>), Dec(5, <<>>))>>, asks |-> <<>>]
\* removes the 0.60 bid and sets the 0.65 ask to 7
DeltaA == [price_changes |-> <<Change(Dec(0, <<6, 0>>), Dec(0, <<>>), "BUY"),
                               Change(Dec(0, <<6, 5>>), Dec(7, <<>>), "SELL")>>]

\* sets the 0.60 bid to 3
DeltaB == [price_changes |-> <<Change(Dec(0, <<6, 0>>), Dec(3, <<>>), "BUY")>>]

MQEvents ==
    {[type |-> "book", assetId |-> "a1", ts |-> t, data |-> d] :
        t \in Ts, d \in {SnapA, SnapB}}
      \cup {[type |-> "price_change", assetId |-> "a1", ts |-> t, data |-> DeltaA] :
              t \in Ts}
      \cup {[type |-> "last-trade-price", assetId |-> "a1", ts |-> 1],
            [type |-> "tick-size-change", assetId |-> "a1", ts |-> 1],
            [type |-> "book", assetId |-> "a2", ts |-> 1, data |-> SnapA],
            [type |-> "price_change", assetId |-> "a1", ts |-> 1, data |-> DeltaB]}

MQBatches == SeqsUpTo(MQEvents, MaxBatch)

Ctx == [priceMaps |-> priceMaps, assetLastBookTs |-> assetLastBookTs,
        snapshotRequired |-> snapshotRequired,
        marketTickSizeByAsset |-> marketTickSizeByAsset]

\* the timestamp a delta of asset a must exceed to be applied by a process()
\* call that starts from context ctx and drains batch
Threshold(ctx, batch, a) ==
    LET snaps == OfType(batch, a, "book")
        m == GetOr(ctx.assetLastBookTs, a, 0)
    IN  IF \E i \in 1..Len(snaps) : snaps[i].ts > m
          THEN CHOOSE t \in {snaps[i].ts : i \in 1..Len(snaps)} :
                 \A i \in 1..Len(snaps) : snaps[i].ts <= t
          ELSE m

IsStaleDelta(ctx, batch, e) ==
    e.type = "price_change" /\ e.ts <= Threshold(ctx, batch, e.assetId)

IsAppliedEvent(ctx, batch, e) ==
    \/ e.type = "book"
    \/ e.type = "price_change" /\ ~IsStaleDelta(ctx, batch, e)

\* max of the history value and the timestamps of the chosen events of asset a
RaiseTs(hist, batch, a, Chosen(_)) ==
    LET ts == {batch[i].ts : i \in {j \in 1..Len(batch) :
                                      batch[j].assetId = a /\ Chosen(batch[j])}}
        all == ts \cup (IF a \in DOMAIN hist THEN {hist[a]} ELSE {})
    IN  CHOOSE t \in all : \A u \in all : u <= t

RaiseAll(hist, batch, Chosen(_)) ==
    LET touched == {a \in Assets : \E i \in 1..Len(batch) :
                                     batch[i].assetId = a /\ Chosen(batch[i])}
    IN  [a \in (DOMAIN hist) \cup touched |-> RaiseTs(hist, batch, a, Chosen)]

\* no getOrderBookSnapshotByTokenId call was made
NoQuery == [tokenId |-> "none", side |-> "none", threw |-> FALSE, results |-> {}]

\* the constructor of OrderBookManager records the market's tick for its
\* first token; a context built elsewhere may record none
InitialTicks == {EmptyMap, [a \in {"a1"} |-> DefaultTick]}

\* a new OrderBookManager: no price map, no timestamp, nothing drained yet
MQStart ==
    /\ priceMaps = EmptyMap
    /\ assetLastBookTs = EmptyMap
    /\ snapshotRequired = {}
    /\ results = <<>>
    /\ mqPhase = "idle"
    /\ mqBatch = <<>>
    /\ mqPrev = Ctx
    /\ mqMaxSnapshotTs = EmptyMap
    /\ mqMaxAppliedTs = EmptyMap
    /\ queried = NoQuery

MQInit == marketTickSizeByAsset \in InitialTicks /\ MQStart

\* messageQueue.push(events); messageQueue.process(context)
PushAndProcess ==
    /\ mqPhase = "idle"
    /\ queried = NoQuery
    /\ \E batch \in MQBatches :
         LET out == Process(Ctx, batch)
             IsSnap(e) == e.type = "book"
             IsApplied(e) == IsAppliedEvent(Ctx, batch, e)
         IN  /\ priceMaps' = out.ctx.priceMaps
             /\ assetLastBookTs' = out.ctx.assetLastBookTs
             /\ snapshotRequired' = out.ctx.snapshotRequired
             /\ marketTickSizeByAsset' = out.ctx.marketTickSizeByAsset
             /\ results' = out.results
             /\ mqPhase' = "processed"
             /\ mqBatch' = batch
             /\ mqPrev' = Ctx
             /\ mqMaxSnapshotTs' = RaiseAll(mqMaxSnapshotTs, batch, IsSnap)
             /\ mqMaxAppliedTs' = RaiseAll(mqMaxAppliedTs, batch, IsApplied)
             /\ queried' = NoQuery
    /\ UNCHANGED <<dpVars, wsVars, fnVars, pxVars, exVars>>

\* the message handler returns; the next message starts from this context
HandlerReturn ==
    /\ mqPhase = "processed"
    /\ mqPhase' = "idle"
    /\ mqBatch' = <<>>
    /\ mqPrev' = Ctx
    /\ results' = <<>>
    /\ UNCHANGED <<priceMaps, assetLastBookTs, snapshotRequired,
                   marketTickSizeByAsset, mqMaxSnapshotTs, mqMaxAppliedTs,
                   queried>>
    /\ UNCHANGED <<dpVars, wsVars, fnVars, pxVars, exVars>>

MQNext == PushAndProcess \/ HandlerReturn

(***************************************************************************)
(* OrderBookManager.getOrderBookSnapshotByTokenId on the price maps the    *)
(* message handler keeps (SpecQuery).  The levels returned are modelled as *)
(* the set of the Map's entries; their order is not.                       *)
(***************************************************************************)
\* this.clobTokenIds: the market's token and its complement
ClobTokenIds == <<"a1", "a2">>
\* the token ids asked for: the pair, and a token of another market
QueryTokens == {"a1", "a2", "a3"}
QuerySides == {"BUY", "SELL"}

\* String.prototype.toLowerCase on a token id
ToLowerCase(s) ==
    CASE s = "A1" -> "a1"
      [] s = "A2" -> "a2"
      [] s = "A3" -> "a3"
      [] OTHER -> s

RECURSIVE FracValue(_, _)
FracValue(frac, unit) ==
    IF frac = <<>> THEN 0
    ELSE Head(frac) * unit + FracValue(Tail(frac), unit \div 10)

\* parseFloat(price) of a decimal string of at most 4 decimals, in units of
\* 0.0001
TenThousandths(price) == price.int * (10 ^ 4) + FracValue(price.frac, 10 ^ 3)

\* 1 - parseFloat(yesPrice), in units of 0.0001
NoPriceNum(yesPrice) == (10 ^ 4) - TenThousandths(yesPrice)

\* noPriceNum.toFixed(4)
NoPriceStr(yesPrice) ==
    LET v == NoPriceNum(yesPrice)
    IN  Dec(v \div (10 ^ 4),
            <<(v \div (10 ^ 3)) % 10, (v \div (10 ^ 2)) % 10, (v \div 10) % 10, v % 10>>)

\* noPriceNum < minPrice || noPriceNum > 1 - minPrice, precision 4
IsFiltered(yesPrice) == NoPriceNum(yesPrice) < 1 \/ NoPriceNum(yesPrice) > (10 ^ 4) - 1

\* (parseFloat(existingSize) + parseFloat(size)).toString() over the sizes
\* that meet on one price; the sizes are whole numbers
RECURSIVE MergedSize(_, _)
MergedSize(levels, sources) ==
    IF sources = {} THEN 0
    ELSE LET p == CHOOSE x \in sources : TRUE
         IN  levels[p].int + MergedSize(levels, sources \ {p})

\* one forEach of getInvertedPriceMap: the side built from the levels of
\* the opposite side of the YES map
InvertLevels(levels) ==
    LET kept == {p \in DOMAIN levels : ~IsFiltered(p)}
    IN  [k \in {NoPriceStr(p) : p \in kept} |->
           LET sources == {p \in kept : NoPriceStr(p) = k}
           IN  IF Cardinality(sources) = 1
                 THEN levels[CHOOSE p \in sources : TRUE]
                 ELSE Dec(MergedSize(levels, sources), <<>>)]

\* OrderBookManager.getInvertedPriceMap(yesAssetId) with the default
\* precision 4
GetInvertedPriceMap(maps, yesAssetId) ==
    LET assetId == ToLowerCase(yesAssetId)
    IN  IF ~MapHas(maps, assetId) THEN NoMap
        ELSE [bids |-> InvertLevels(maps[assetId].asks),
              asks |-> InvertLevels(maps[assetId].bids)]

\* priceMap.asks.forEach / priceMap.bids.forEach pushing {price, size}
Entries(levels) == {[price |-> p, size |-> levels[p]] : p \in DOMAIN levels}

\* variant: a token without a price map has no levels
GetOrderBookSnapshotOrEmpty(maps, tokenId, side) ==
    LET priceMap == IF tokenId = ClobTokenIds[1] THEN GetOr(maps, tokenId, NoMap)
                    ELSE IF tokenId = ClobTokenIds[2]
                      THEN GetInvertedPriceMap(maps, ClobTokenIds[1])
                    ELSE NoMap
    IN  [threw |-> FALSE,
         results |-> IF ~IsMap(priceMap) THEN {}
                     ELSE Entries(IF side = "BUY" THEN priceMap.asks
                                                  ELSE priceMap.bids)]

\* OrderBookManager.getOrderBookSnapshotByTokenId(tokenId, side)
GetOrderBookSnapshotByTokenId(maps, tokenId, side) ==
    LET priceMap == IF tokenId = ClobTokenIds[1] THEN GetOr(maps, tokenId, NoMap)
                    ELSE IF tokenId = ClobTokenIds[2]
                      THEN GetInvertedPriceMap(maps, ClobTokenIds[1])
                    ELSE NoMap
    IN  IF ~IsMap(priceMap)
          THEN [threw |-> TRUE, results |-> {}]
          ELSE [threw |-> FALSE,
                results |-> Entries(IF side = "BUY" THEN priceMap.asks
                                                    ELSE priceMap.bids)]

\* a caller asks for the levels of a token between two messages
QuerySnapshot ==
    /\ mqPhase = "idle"
    /\ queried = NoQuery
    /\ \E tokenId \in QueryTokens, side \in QuerySides :
         \E r \in {GetOrderBookSnapshotByTokenId(priceMaps, tokenId, side)} :
           queried' = [tokenId |-> tokenId, side |-> side,
                       threw |-> r.threw, results |-> r.results]
    /\ UNCHANGED <<priceMaps, assetLastBookTs, snapshotRequired,
                   marketTickSizeByAsset, results, mqPhase, mqBatch, mqPrev,
                   mqMaxSnapshotTs, mqMaxAppliedTs>>
    /\ UNCHANGED <<dpVars, wsVars, fnVars, pxVars, exVars>>

\* the call returns or throws to its caller
QueryReturn ==
    /\ queried # NoQuery
    /\ queried' = NoQuery
    /\ UNCHANGED <<priceMaps, assetLastBookTs, snapshotRequired,
                   marketTickSizeByAsset, results, mqPhase, mqBatch, mqPrev,
                   mqMaxSnapshotTs, mqMaxAppliedTs>>
    /\ UNCHANGED <<dpVars, wsVars, fnVars, pxVars, exVars>>

\* the frames of the 'message' listener that yield no event: an empty
\* frame, the keepalive answer, text that is not JSON, a JSON array with a
\* null entry, a JSON object without event_type
OtherFrames == {"empty", "PONG", "notJson", "nullEntry", "noEventType"}

\* the 'message' listener on such a frame: it returns early, or finds no
\* event, or JSON.parse (processMessage on the null entry) throws and nothing
\* in the listener catches it
OnMessage(frame) ==
    CASE frame \in {"empty", "PONG"} -> "dropped"
      [] frame = "notJson" -> "threw"
      [] frame = "nullEntry" -> "threw"
      [] OTHER -> "dropped"

OtherMessage ==
    /\ mqPhase = "idle"
    /\ queried = NoQuery
    /\ \E frame \in OtherFrames : mqPhase' = OnMessage(frame)
    /\ mqBatch' = <<>>
    /\ mqPrev' = Ctx
    /\ results' = <<>>
    /\ UNCHANGED <<priceMaps, assetLastBookTs, snapshotRequired,
                   marketTickSizeByAsset, mqMaxSnapshotTs, mqMaxAppliedTs,
                   queried>>
    /\ UNCHANGED <<dpVars, wsVars, fnVars, pxVars, exVars>>

\* the listener is left; an exception it threw went to the process's
\* handler of uncaught exceptions
ListenerLeft ==
    /\ mqPhase \in {"dropped", "threw"}
    /\ mqPhase' = "idle"
    /\ UNCHANGED <<priceMaps, assetLastBookTs, snapshotRequired,
                   marketTickSizeByAsset, results, mqBatch, mqPrev,
                   mqMaxSnapshotTs, mqMaxAppliedTs, queried>>
    /\ UNCHANGED <<dpVars, wsVars, fnVars, pxVars, exVars>>

QueryNext ==
    \/ PushAndProcess \/ HandlerReturn \/ OtherMessage \/ ListenerLeft
    \/ QuerySnapshot \/ QueryReturn


(***************************************************************************)
(* WebSocketConnection (websocket-connection.ts)                           *)
(*                                                                         *)
(* Time is counted in units of half a ping interval, so that the pong      *)
(* timeout, 2.5 ping intervals, is a whole number of units.  Only two      *)
(* facts about the stored timestamps ever reach a condition of the code:   *)
(* whether lastPingTs is positive, and how far lastPongTs lies behind      *)
(* Date.now().  The model keeps exactly those: lastPingTs is 0 or 1, and   *)
(* pongAge is Date.now() - lastPongTs, which stops growing at Expired.     *)
(***************************************************************************)
MaxAttempts == 2       \* the finite attempt cap, and the limit on the counter

PingInterval == 2                           \* options.pingIntervalMs
PongTimeout == (PingInterval * 5) \div 2    \* pingIntervalMs * 2.5
Expired == PongTimeout + PingInterval + 1   \* any age no live socket can show

ConnectionState ==
    {"DISCONNECTED", "CONNECTING", "CONNECTED", "RECONNECTING", "CLOSED"}
Callbacks ==
    {"onOpen", "onMessage", "onClose", "onError", "onReconnect", "onStateChange"}
Urls == {"wss://live-data-ws.polymarket.com/ws", "wss://stream.binance.com:9443/stream"}
Messages == {"", "PONG", "data"}

UrlIncludesPolymarket(u) == u = "wss://live-data-ws.polymarket.com/ws"

Min2(a, b) == IF a <= b THEN a ELSE b

\* the connection's fields at the start of a handler; the handler's outputs
\* start empty
Conn ==
    [state |-> state, wsClient |-> wsClient, intervalTimer |-> intervalTimer,
     tickIn |-> tickIn, reconnectTimer |-> reconnectTimer,
     lastPingTs |-> lastPingTs, pongAge |-> pongAge,
     reconnectAttempts |-> reconnectAttempts,
     notified |-> <<>>, sent |-> <<>>, created |-> FALSE, raised |-> FALSE,
     returned |-> "none"]

\* the owner's callback throws when invoked with this argument; a callback
\* may throw for one state it is notified of and return for the others
Throws(callback, arg) == <<callback, arg>> \in throwing

\* the invocations an owner callback can throw from
ThrowPoints ==
    {<<cb, "">> : cb \in Callbacks \ {"onStateChange"}}
      \cup {<<"onStateChange", st>> : st \in ConnectionState}

\* an exception leaves the handler: the rest of the handler does not run
Throw(c) == [c EXCEPT !.raised = TRUE]

SetState(c, newState) ==
    IF c.state # newState
    THEN LET c1 == [c EXCEPT !.state = newState,
                             !.notified = Append(@, newState)]
         IN  IF Throws("onStateChange", newState) THEN Throw(c1) ELSE c1
    ELSE c

\* ws: terminate() destroys the transport; the close event follows later
Terminate(c) ==
    IF c.wsClient \in {"OPEN", "CONNECTING"}
    THEN [c EXCEPT !.wsClient = "CLOSING"]
    ELSE c

\* removeAllListeners(), terminate() if still open, drop the reference: the
\* old socket can no longer reach any handler
CleanupWebSocket(c) ==
    IF c.wsClient # "null" THEN [c EXCEPT !.wsClient = "null"] ELSE c

StopHeartbeat(c) ==
    IF c.intervalTimer
    THEN [c EXCEPT !.intervalTimer = FALSE, !.tickIn = 0]
    ELSE c

CancelReconnect(c) ==
    IF c.reconnectTimer THEN [c EXCEPT !.reconnectTimer = FALSE] ELSE c

StartHeartbeat(c) ==
    [StopHeartbeat(c) EXCEPT !.intervalTimer = TRUE, !.tickIn = PingInterval]

CreateWebSocket(c) ==
    IF c.state = "CLOSED"
    THEN c
    ELSE [CleanupWebSocket(c) EXCEPT !.wsClient = "CONNECTING",
                                     !.created = TRUE]

\* variant: a connect that refuses only a CLOSED connection
ConnectUnlessClosed(c) ==
    IF c.state = "CLOSED"
    THEN c
    ELSE LET c1 == SetState(c, "CONNECTING")
         IN  IF c1.raised THEN c1 ELSE CreateWebSocket(c1)

Connect(c) ==
    IF c.state \in {"CONNECTED", "CONNECTING", "RECONNECTING", "CLOSED"}
    THEN c
    ELSE LET c1 == SetState(c, "CONNECTING")
         IN  IF c1.raised THEN c1 ELSE CreateWebSocket(c1)

\* ws: send() and ping() throw on a socket that is still connecting, write
\* on an open one, and drop the data silently on a closing or closed one
SendThrows(c) == c.wsClient = "CONNECTING"
Transmit(c, payload) ==
    IF c.wsClient = "OPEN" THEN [c EXCEPT !.sent = Append(@, payload)] ELSE c

SendMessage(c) ==
    IF c.state # "CONNECTED" \/ c.wsClient = "null"
    THEN [c EXCEPT !.returned = "false"]
    ELSE IF SendThrows(c)
         THEN [c EXCEPT !.returned = "false"]
         ELSE [Transmit(c, "payload") EXCEPT !.returned = "true"]

\* the owner's onOpen: every owner in the repository subscribes from it
OnOpen(c) ==
    IF Throws("onOpen", "")
    THEN Throw(c)
    ELSE [SendMessage(c) EXCEPT !.returned = "none"]

\* variant: the owner's onOpen runs before the state is set
HandleOpenCallbackFirst(c) ==
    LET c1 == OnOpen(c)
        c2 == IF c1.raised THEN c1 ELSE SetState(c1, "CONNECTED")
    IN  IF c2.raised
        THEN c2
        ELSE StartHeartbeat([c2 EXCEPT !.reconnectAttempts = 0,
                                       !.lastPingTs = 0,
                                       !.pongAge = 0])

\* variant: an open that leaves the attempt counter alone
HandleOpenKeepCounter(c) ==
    LET c1 == SetState(c, "CONNECTED")
    IN  IF c1.raised
        THEN c1
        ELSE OnOpen(StartHeartbeat([c1 EXCEPT !.lastPingTs = 0,
                                              !.pongAge = 0]))

HandleOpen(c) ==
    LET c1 == SetState(c, "CONNECTED")
    IN  IF c1.raised
        THEN c1
        ELSE OnOpen(StartHeartbeat([c1 EXCEPT !.reconnectAttempts = 0,
                                              !.lastPingTs = 0,
                                              !.pongAge = 0]))

HandleMessage(c, msgString) ==
    IF msgString = "" THEN c
    ELSE IF msgString = "PONG" THEN [c EXCEPT !.pongAge = 0]
    ELSE IF Throws("onMessage", "") THEN Throw(c)
    ELSE c

\* a scheduleReconnect that moves to RECONNECTING but arms no timer
ScheduleReconnectStateOnly(c) ==
    IF maxReconnectAttempts > 0 /\ c.reconnectAttempts >= maxReconnectAttempts
    THEN SetState(c, "DISCONNECTED")
    ELSE LET c1 == SetState(c, "RECONNECTING")
         IN  IF c1.raised
             THEN c1
             ELSE [c1 EXCEPT !.reconnectAttempts = @ + 1]

\* a scheduleReconnect that gives up one attempt late (> for >=)
ScheduleReconnectPastCap(c) ==
    IF maxReconnectAttempts > 0 /\ c.reconnectAttempts > maxReconnectAttempts
    THEN SetState(c, "DISCONNECTED")
    ELSE LET c1 == SetState(c, "RECONNECTING")
         IN  IF c1.raised
             THEN c1
             ELSE [c1 EXCEPT !.reconnectAttempts = @ + 1,
                             !.reconnectTimer = TRUE]

\* onReconnect runs inside try/catch, after the timer is armed
ScheduleReconnect(c) ==
    IF maxReconnectAttempts > 0 /\ c.reconnectAttempts >= maxReconnectAttempts
    THEN SetState(c, "DISCONNECTED")
    ELSE LET c1 == SetState(c, "RECONNECTING")
         IN  IF c1.raised
             THEN c1
             ELSE [c1 EXCEPT !.reconnectAttempts = @ + 1,
                             !.reconnectTimer = TRUE]

\* variant: a close that leaves the heartbeat running
HandleCloseKeepHeartbeat(c) ==
    IF c.state # "CLOSED" /\ c.state # "DISCONNECTED"
    THEN ScheduleReconnect(c)
    ELSE c

\* onClose runs inside try/catch
HandleClose(c) ==
    LET c1 == StopHeartbeat(c)
    IN  IF c1.state # "CLOSED" /\ c1.state # "DISCONNECTED"
        THEN ScheduleReconnect(c1)
        ELSE c1

HandleError(c) == IF Throws("onError", "") THEN Throw(c) ELSE c

\* a heartbeat that never checks the pong clock
HeartbeatTickNoTimeout(c) ==
    IF c.wsClient = "null" \/ c.state # "CONNECTED"
    THEN c
    ELSE IF SendThrows(c)
         THEN c
         ELSE LET c1 == IF UrlIncludesPolymarket(url)
                        THEN Transmit(c, "PING")
                        ELSE c
              IN  [Transmit(c1, "ping") EXCEPT !.lastPingTs = 1]

\* the callback startHeartbeat hands to setInterval
HeartbeatTick(c) ==
    IF c.wsClient = "null" \/ c.state # "CONNECTED"
    THEN c
    ELSE IF c.lastPingTs > 0 /\ c.pongAge > PongTimeout
         THEN Terminate(c)
         ELSE IF SendThrows(c)
              THEN c
              ELSE LET c1 == IF UrlIncludesPolymarket(url)
                             THEN Transmit(c, "PING")
                             ELSE c
                   IN  [Transmit(c1, "ping") EXCEPT !.lastPingTs = 1]

\* variant: the timer callback clears the timer and creates no socket
ReconnectTimerCallbackNoSocket(c) == [c EXCEPT !.reconnectTimer = FALSE]

\* the callback scheduleReconnect hands to setTimeout
ReconnectTimerCallback(c) ==
    CreateWebSocket([c EXCEPT !.reconnectTimer = FALSE])

\* variant: a disconnect that leaves a pending reconnect timer armed
DisconnectKeepTimer(c) ==
    SetState(CleanupWebSocket(StopHeartbeat(c)), "DISCONNECTED")

Disconnect(c) ==
    SetState(CleanupWebSocket(StopHeartbeat(CancelReconnect(c))),
             "DISCONNECTED")

Reconnect(c) ==
    LET c1 == Disconnect([c EXCEPT !.reconnectAttempts = 0])
    IN  IF c1.raised THEN c1 ELSE Connect(c1)

\* a destroy that only sets the state
DestroyStateOnly(c) == SetState(c, "CLOSED")

Destroy(c) ==
    LET c1 == SetState(c, "CLOSED")
    IN  IF c1.raised
        THEN c1
        ELSE CleanupWebSocket(StopHeartbeat(CancelReconnect(c1)))

\* variant: a reset that does not look at the state
ResetAlways(c) ==
    SetState([c EXCEPT !.reconnectAttempts = 0,
                       !.lastPingTs = 0,
                       !.pongAge = Expired],
             "DISCONNECTED")

Reset(c) ==
    IF c.state = "CLOSED"
    THEN SetState([c EXCEPT !.reconnectAttempts = 0,
                            !.lastPingTs = 0,
                            !.pongAge = Expired],
                  "DISCONNECTED")
    ELSE c

(***************************************************************************)
(* SpecWS: one connection, its owner, its socket and its timers            *)
(***************************************************************************)
Op(name, arg) == [name |-> name, arg |-> arg]

\* the state after new WebSocketConnection(options)
WSStart ==
    /\ state = "DISCONNECTED"
    /\ wsClient = "null"
    /\ intervalTimer = FALSE
    /\ tickIn = 0
    /\ reconnectTimer = FALSE
    /\ lastPingTs = 0
    /\ pongAge = Expired
    /\ reconnectAttempts = 0
    /\ wsOp = Op("new", "")
    /\ notified = <<>>
    /\ sent = <<>>
    /\ created = FALSE
    /\ raised = FALSE
    /\ returned = "none"
    /\ scheduledSinceOpen = 0
    /\ scheduledSinceRestart = 0

\* the connection of the other specifications: constructed, never used
WSIdle ==
    /\ url = "wss://stream.binance.com:9443/stream"
    /\ maxReconnectAttempts = 0
    /\ throwing = {}
    /\ WSStart

\* owners pass maxReconnectAttempts 0 (no cap) or leave the finite default
WSInit ==
    /\ url \in Urls
    /\ maxReconnectAttempts \in {0, MaxAttempts}
    /\ throwing = {}
    /\ WSStart

\* the history count n after handler op left the connection as c: back to 0
\* when op is one of the restarts, one more (up to SchedCap) when op armed
\* the reconnect timer
SchedCap == MaxAttempts + 2
Scheduled(n, op, c, restarts) ==
    IF op.name \in restarts THEN 0
    ELSE IF op.name = "close" /\ c.reconnectTimer THEN Min2(n + 1, SchedCap)
    ELSE n

\* the handler has run on the connection and left it as c
Install(op, c) ==
    /\ state' = c.state
    /\ wsClient' = c.wsClient
    /\ intervalTimer' = c.intervalTimer
    /\ tickIn' = c.tickIn
    /\ reconnectTimer' = c.reconnectTimer
    /\ lastPingTs' = c.lastPingTs
    /\ pongAge' = c.pongAge
    /\ reconnectAttempts' = c.reconnectAttempts
    /\ wsOp' = op
    /\ notified' = c.notified
    /\ sent' = c.sent
    /\ created' = c.created
    /\ raised' = c.raised
    /\ returned' = c.returned
    /\ scheduledSinceOpen' = Scheduled(scheduledSinceOpen, op, c, {"open"})
    /\ scheduledSinceRestart' =
         Scheduled(scheduledSinceRestart, op, c,
                   {"open", "reconnect"}
                     \cup (IF state = "CLOSED" THEN {"reset"} ELSE {}))
    /\ UNCHANGED <<url, maxReconnectAttempts, throwing, dpVars, mqVars, fnVars, pxVars, exVars>>

\* ---- calls of the owner ----
CallConnect ==
    \E c \in {Connect(Conn)} : Install(Op("connect", ""), c)
CallDisconnect ==
    \E c \in {Disconnect(Conn)} : Install(Op("disconnect", ""), c)
CallReconnect ==
    \E c \in {Reconnect(Conn)} : Install(Op("reconnect", ""), c)
CallDestroy ==
    \E c \in {Destroy(Conn)} : Install(Op("destroy", ""), c)
CallReset ==
    \E c \in {Reset(Conn)} : Install(Op("reset", ""), c)
CallSendMessage ==
    \E c \in {SendMessage(Conn)} : Install(Op("sendMessage", ""), c)

\* ---- events of the socket this.wsClient references ----
SocketOpen ==
    /\ wsClient = "CONNECTING"
    /\ Install(Op("open", ""), HandleOpen([Conn EXCEPT !.wsClient = "OPEN"]))

SocketMessage ==
    /\ wsClient = "OPEN"
    /\ \E msg \in Messages : Install(Op("message", msg), HandleMessage(Conn, msg))

\* the listener createWebSocket registers for the native pong frame
SocketPong ==
    /\ wsClient = "OPEN"
    /\ Install(Op("pong", ""), [Conn EXCEPT !.pongAge = 0])

\* ws reports a failure as an error event and closes the socket after it
SocketError ==
    /\ wsClient \in {"CONNECTING", "OPEN"}
    /\ Install(Op("error", ""), HandleError([Conn EXCEPT !.wsClient = "CLOSING"]))

\* the close event: of a socket the server closed, that failed, or that the
\* heartbeat terminated
SocketClose ==
    /\ wsClient \in {"OPEN", "CLOSING"}
    /\ reconnectAttempts <= MaxAttempts
    /\ Install(Op("close", ""), HandleClose([Conn EXCEPT !.wsClient = "CLOSED"]))

\* ---- timers ----
\* setInterval fires; the timer rearms itself unless the tick cleared it
IntervalFires ==
    /\ intervalTimer
    /\ tickIn = 0
    /\ LET c == HeartbeatTick(Conn)
       IN  Install(Op("tick", ""),
                   [c EXCEPT !.tickIn = IF c.intervalTimer THEN PingInterval ELSE 0])

\* setTimeout fires once the backoff delay has elapsed
ReconnectFires ==
    /\ reconnectTimer
    /\ Install(Op("timer", ""), ReconnectTimerCallback(Conn))

\* one unit of time passes; a due interval timer fires first
TimePasses ==
    /\ intervalTimer => tickIn > 0
    /\ Install(Op("time", ""),
               [Conn EXCEPT !.tickIn = IF intervalTimer THEN tickIn - 1 ELSE 0,
                            !.pongAge = Min2(pongAge + 1, Expired)])

\* the endpoint refuses or drops a connection; it does so only a bounded
\* number of times in a row
SocketFails ==
    /\ reconnectAttempts <= MaxAttempts
    /\ wsClient \in {"CONNECTING", "OPEN"}
    /\ Install(Op("error", ""), HandleError([Conn EXCEPT !.wsClient = "CLOSING"]))

\* an owner that connects and never calls disconnect(), reconnect() or
\* destroy()
WSLiveNext ==
    \/ CallConnect \/ CallSendMessage
    \/ SocketOpen \/ SocketMessage \/ SocketPong \/ SocketFails \/ SocketClose
    \/ IntervalFires \/ ReconnectFires \/ TimePasses

WSNext ==
    \/ CallConnect \/ CallDisconnect \/ CallReconnect \/ CallDestroy
    \/ CallReset \/ CallSendMessage
    \/ SocketOpen \/ SocketMessage \/ SocketPong \/ SocketError \/ SocketClose
    \/ IntervalFires \/ ReconnectFires \/ TimePasses


(***************************************************************************)
(* Reconnect backoff (scheduleReconnect of WebSocketConnection and of      *)
(* OrderBookManager compute the delay the same way)                        *)
(*                                                                         *)
(* Delays are whole milliseconds; Math.random() * 1000 is drawn from a     *)
(* few values of [0, 1000), its two ends among them.                       *)
(***************************************************************************)
MaxExponent == 7        \* attempt counter values 0..MaxExponent are tried

ReconnectBaseDelayMs == 1000    \* options.reconnectBaseDelayMs ?? 1000
ReconnectMaxDelayMs == 30000    \* options.reconnectMaxDelayMs ?? 30000
JitterRangeMs == 1000           \* Math.random() * 1000

\* the base delays the owners configure: the default and 3000
BaseDelays == {ReconnectBaseDelayMs, 3 * ReconnectBaseDelayMs}
Jitters == {0, 1, 250, 500, 750, JitterRangeMs - 2, JitterRangeMs - 1}

\* variant: the cap is applied before the jitter is added
ReconnectDelayCapFirst(base, maxDelay, attempts, jitter) ==
    Min2(base * (2 ^ attempts), maxDelay) + jitter

\* exponentialDelay = base * 2^attempts; delay = min(that + jitter, max)
ReconnectDelay(base, maxDelay, attempts, jitter) ==
    LET exponentialDelay == base * (2 ^ attempts)
    IN  Min2(exponentialDelay + jitter, maxDelay)

BackoffIdle ==
    [phase |-> "idle", base |-> 0, attempts |-> 0, jitter |-> 0, delay |-> 0]

BackoffInit == backoff = BackoffIdle

\* scheduleReconnect computes the delay and arms the timer with it
ComputeDelay ==
    /\ backoff.phase = "idle"
    /\ \E base \in BaseDelays, attempts \in 0..MaxExponent, jitter \in Jitters :
         backoff' = [phase |-> "armed", base |-> base, attempts |-> attempts,
                     jitter |-> jitter,
                     delay |-> ReconnectDelay(base, ReconnectMaxDelayMs,
                                              attempts, jitter)]
    /\ UNCHANGED <<dpVars, mqVars, wsVars, orderBook, pxVars, exVars>>

\* the timer fires
DelayElapses ==
    /\ backoff.phase = "armed"
    /\ backoff' = BackoffIdle
    /\ UNCHANGED <<dpVars, mqVars, wsVars, orderBook, pxVars, exVars>>

BackoffNext == ComputeDelay \/ DelayElapses


(***************************************************************************)
(* BookBuilder.build and Aggregator.aggregate                              *)
(*                                                                         *)
(* Prices, tick sizes and money values are counted in thousandths: the     *)
(* price "0.333" is 333, the tick size 0.01 is 10, the value "0.67" is     *)
(* 670.  Sizes are whole shares.  A formatted number (toFixed) is the      *)
(* number it denotes; levels are compared by the numbers they hold.        *)
(*                                                                         *)
(* The sizes are even and no price ends in 5 thousandths, so no number     *)
(* handed to toFixed lies halfway between two results (where the digit     *)
(* chosen would depend on the binary representation of the number), and    *)
(* for the prices below the quotient price / tickSize computed in double   *)
(* arithmetic rounds (floor, ceil) as the exact quotient does.             *)
(***************************************************************************)
MaxBookLevels == 2      \* levels per side of a price map handed to build

Thousandths == 10 ^ 3   \* the number 1
TickSizes == {10, 1}    \* 0.01 and 0.001
BookPrices == {1, 333, 600, 650, 999}
BookSizes == {2, 4}

Max2Int(a, b) == IF a >= b THEN a ELSE b

\* getPrecisionFromTickSize: the digits after the decimal point of tickSize
GetPrecisionFromTickSize(tickSize) ==
    IF tickSize >= Thousandths THEN 0
    ELSE IF tickSize % 100 = 0 THEN 1
    ELSE IF tickSize % 10 = 0 THEN 2
    ELSE 3

\* Number.prototype.toFixed(precision) of a number that is not negative
ToFixed(value, precision) ==
    LET unit == 10 ^ (3 - precision)
    IN  ((2 * value + unit) \div (2 * unit)) * unit

RECURSIVE SumSeq(_)
SumSeq(s) == IF s = <<>> THEN 0 ELSE Head(s) + SumSeq(Tail(s))

\* Array.from(map.entries()): the [price, size] entries of one side of a
\* price map (the keys are different numbers, so the order they come in
\* does not show after the sort)
RECURSIVE Values(_)
Values(m) ==
    IF DOMAIN m = {} THEN <<>>
    ELSE LET p == CHOOSE p \in DOMAIN m : \A q \in DOMAIN m : p <= q
         IN  <<[price |-> p, size |-> m[p]]>>
               \o Values([q \in (DOMAIN m) \ {p} |-> m[q]])

\* Array.prototype.sort by parseFloat(price), ascending or descending; the
\* sort is stable
RECURSIVE SortLevels(_, _)
SortLevels(levels, ascending) ==
    IF levels = <<>> THEN <<>>
    ELSE LET x == Head(levels)
             rest == SortLevels(Tail(levels), ascending)
             k == Cardinality({i \in 1..Len(rest) :
                                 IF ascending THEN rest[i].price < x.price
                                              ELSE rest[i].price > x.price})
         IN  SubSeq(rest, 1, k) \o <<x>> \o SubSeq(rest, k + 1, Len(rest))

\* variant: each level reports its own size and value as the cumulative ones
ParseSideNoRunningSum(levels) ==
    [i \in 1..Len(levels) |->
       [price |-> levels[i].price,
        size |-> levels[i].size,
        value |-> ToFixed(levels[i].price * levels[i].size, 2),
        netSize |-> levels[i].size,
        netValue |-> ToFixed(levels[i].price * levels[i].size, 2)]]

\* BookBuilder._parseSide: value = price * size, and the running sums of
\* the sizes and of the values as computed (not as formatted)
ParseSide(levels) ==
    LET values == [j \in 1..Len(levels) |-> levels[j].price * levels[j].size]
        sizes == [j \in 1..Len(levels) |-> levels[j].size]
    IN  [i \in 1..Len(levels) |->
           [price |-> levels[i].price,
            size |-> levels[i].size,
            value |-> ToFixed(values[i], 2),
            netSize |-> SumSeq(SubSeq(sizes, 1, i)),
            netValue |-> ToFixed(SumSeq(SubSeq(values, 1, i)), 2)]]

\* number | null: null is -1 (no price, spread or midpoint is negative)
Null == 0 - 1

\* BookBuilder._clamp: value.toFixed(precision) as a number, null for null
Clamp(value, precision) ==
    IF value = Null THEN Null ELSE ToFixed(value, precision)

\* variant: an empty side has the best price 0
FirstPriceOrZero(levels) == IF Len(levels) > 0 THEN levels[1].price ELSE 0

\* levels.length ? parseFloat(levels[0].price) : null
FirstPrice(levels) == IF Len(levels) > 0 THEN levels[1].price ELSE Null

\* _clamp(bestAsk.valid && bestBid.valid ? Math.max(bestAsk - bestBid, 0) : null)
Spread(bestAsk, bestBid, precision) ==
    IF bestAsk # Null /\ bestBid # Null
      THEN Clamp(Max2Int(bestAsk - bestBid, 0), precision)
      ELSE Null

\* The best prices <<lower, higher, precision>> of the model whose half-sum
\* lies halfway between two numbers of that precision and, computed in
\* double arithmetic, falls just below that half: toFixed rounds it down.
\* The other half-way pairs round up; the half-sum of 0.60 and 0.65, 0.625,
\* is exact in binary and toFixed(2) gives "0.63".
MidpointRoundsDown ==
    {<<0, 350, 2>>, <<330, 400, 2>>, <<330, 600, 2>>, <<350, 600, 2>>,
     <<650, 1000, 2>>, <<670, 1000, 2>>,
     <<1, 350, 3>>, <<1, 600, 3>>, <<350, 667, 3>>, <<350, 999, 3>>,
     <<600, 667, 3>>, <<600, 999, 3>>}

\* _clamp(bestAsk.valid && bestBid.valid ? (bestAsk + bestBid) / 2 : null);
\* the best prices are numbers of the given precision
Midpoint(bestAsk, bestBid, precision) ==
    IF bestAsk # Null /\ bestBid # Null
      THEN LET unit == 10 ^ (3 - precision)
               sum == bestAsk + bestBid
               below == (sum \div (2 * unit)) * unit
               pair == <<Min2(bestAsk, bestBid), Max2Int(bestAsk, bestBid),
                         precision>>
           IN  IF sum % (2 * unit) = 0 THEN below
               ELSE IF pair \in MidpointRoundsDown THEN below
               ELSE below + unit
      ELSE Null

\* BookBuilder._invertPrice: NO = 1 - YES
InvertPrice(price, precision) ==
    Clamp(Max2Int(Thousandths - price, 0), precision)

\* BookBuilder._invertSide: invert each price, sort, then the loop of
\* _parseSide over the inverted levels
InvertSide(levels, targetSide, precision) ==
    LET inverted == [i \in 1..Len(levels) |->
                       [price |-> InvertPrice(levels[i].price, precision),
                        size |-> levels[i].size]]
    IN  ParseSide(SortLevels(inverted, targetSide = "ask"))

\* BookBuilder.build (includedLevels left out)
Build(priceMap, tickSize) ==
    LET precision == GetPrecisionFromTickSize(tickSize)
        sortedBids == SortLevels(Values(priceMap.bids), FALSE)
        sortedAsks == SortLevels(Values(priceMap.asks), TRUE)
        yesBids == ParseSide(sortedBids)
        yesAsks == ParseSide(sortedAsks)
        noBids == InvertSide(yesAsks, "bid", precision)
        noAsks == InvertSide(yesBids, "ask", precision)
        yesBestAsk == Clamp(FirstPrice(yesAsks), precision)
        yesBestBid == Clamp(FirstPrice(yesBids), precision)
        noBestAsk == Clamp(FirstPrice(noAsks), precision)
        noBestBid == Clamp(FirstPrice(noBids), precision)
        yesSpread == Spread(yesBestAsk, yesBestBid, precision)
        yesMidpoint == Midpoint(yesBestAsk, yesBestBid, precision)
        noMidpoint == Midpoint(noBestAsk, noBestBid, precision)
    IN  [zero |-> [askArray |-> yesAsks, bidArray |-> yesBids,
                   bestAsk |-> yesBestAsk, bestBid |-> yesBestBid,
                   spread |-> yesSpread, midpoint |-> yesMidpoint],
         one |-> [askArray |-> noAsks, bidArray |-> noBids,
                  bestAsk |-> noBestAsk, bestBid |-> noBestBid,
                  spread |-> yesSpread, midpoint |-> noMidpoint],
         activeTickSize |-> tickSize]

\* getBucketForPrice: bids round down, asks up, to a multiple of tickSize
GetBucketForPrice(price, side, tickSize) ==
    LET precision == GetPrecisionFromTickSize(tickSize)
    IN  IF side = "bid"
          THEN ToFixed((price \div tickSize) * tickSize, precision)
          ELSE ToFixed(((price + tickSize - 1) \div tickSize) * tickSize,
                       precision)

\* buckets.get(key) || {...}; existing.size += size; existing.value += value;
\* buckets.set(key, existing): a Map keeps the order of first insertion
AddToBucket(buckets, key, size, value) ==
    IF \E i \in 1..Len(buckets) : buckets[i].price = key
      THEN [i \in 1..Len(buckets) |->
              IF buckets[i].price = key
                THEN [buckets[i] EXCEPT !.size = @ + size, !.value = @ + value]
                ELSE buckets[i]]
      ELSE Append(buckets, [price |-> key, size |-> size, value |-> value])

\* the tail of Aggregator._aggregateSide and of Aggregator._invertSide:
\* format each bucket, sort, and sum the sizes and the formatted values
FormatBuckets(buckets, sortOrder) ==
    LET result == SortLevels([i \in 1..Len(buckets) |->
                                [price |-> buckets[i].price,
                                 size |-> buckets[i].size,
                                 value |-> ToFixed(buckets[i].value, 2)]],
                             sortOrder = "asc")
        values == [j \in 1..Len(result) |-> result[j].value]
        sizes == [j \in 1..Len(result) |-> result[j].size]
    IN  [i \in 1..Len(result) |->
           [price |-> result[i].price,
            size |-> result[i].size,
            value |-> result[i].value,
            netSize |-> SumSeq(SubSeq(sizes, 1, i)),
            netValue |-> ToFixed(SumSeq(SubSeq(values, 1, i)), 2)]]

\* the first loop of Aggregator._aggregateSide
RECURSIVE AggregateBuckets(_, _, _)
AggregateBuckets(levels, tickSize, side) ==
    IF levels = <<>> THEN <<>>
    ELSE LET level == levels[Len(levels)]
             bucket == GetBucketForPrice(level.price, side, tickSize)
         IN  AddToBucket(AggregateBuckets(SubSeq(levels, 1, Len(levels) - 1),
                                          tickSize, side),
                         bucket, level.size, level.value)

\* Aggregator._aggregateSide
AggregateSide(levels, sortOrder, tickSize, side) ==
    FormatBuckets(AggregateBuckets(levels, tickSize, side), sortOrder)

\* Aggregator._invertPrice: 1 - price kept within [min, 1 - min]; the number
\* (_price) before it is formatted
AggregatorInvertPrice(price, min) ==
    Min2(Thousandths - min, Max2Int(min, Thousandths - price))

\* the first loop of Aggregator._invertSide: the bucket key is the
\* formatted inverted price, the value uses the unformatted one
RECURSIVE InvertBuckets(_, _, _)
InvertBuckets(levels, sourcePrecision, minPrice) ==
    IF levels = <<>> THEN <<>>
    ELSE LET level == levels[Len(levels)]
             invertedPriceNum == AggregatorInvertPrice(level.price, minPrice)
             invertedPrice == ToFixed(invertedPriceNum, sourcePrecision)
         IN  AddToBucket(InvertBuckets(SubSeq(levels, 1, Len(levels) - 1),
                                       sourcePrecision, minPrice),
                         invertedPrice, level.size,
                         invertedPriceNum * level.size)

\* Aggregator._invertSide
AggregatorInvertSide(levels, sortOrder, sourcePrecision) ==
    LET minPrice == 10 ^ (3 - sourcePrecision)
    IN  FormatBuckets(InvertBuckets(levels, sourcePrecision, minPrice),
                      sortOrder)

\* Aggregator.aggregate (includedLevels left out)
Aggregate(full, targetTickSize, marketTickSize) ==
    LET sourcePrecision == GetPrecisionFromTickSize(targetTickSize)
        aggregatedYesBids ==
            AggregateSide(full.zero.bidArray, "desc", targetTickSize, "bid")
        aggregatedYesAsks ==
            AggregateSide(full.zero.askArray, "asc", targetTickSize, "ask")
        noBids == AggregatorInvertSide(aggregatedYesBids, "asc", sourcePrecision)
        noAsks == AggregatorInvertSide(aggregatedYesAsks, "desc", sourcePrecision)
    IN  [zero |-> [askArray |-> aggregatedYesAsks, bidArray |-> aggregatedYesBids,
                   bestAsk |-> full.zero.bestAsk, bestBid |-> full.zero.bestBid,
                   spread |-> full.zero.spread, midpoint |-> full.zero.midpoint],
         one |-> [askArray |-> noBids, bidArray |-> noAsks,
                  bestAsk |-> full.one.bestAsk, bestBid |-> full.one.bestBid,
                  spread |-> full.one.spread, midpoint |-> full.one.midpoint],
         activeTickSize |-> targetTickSize]

\* one side of a price map: at most MaxBookLevels prices, each with a size
BookSides ==
    UNION {[S -> BookSizes] :
             S \in {T \in SUBSET BookPrices : Cardinality(T) <= MaxBookLevels}}

NoBook == [undefined |-> TRUE]

BookIdle ==
    [phase |-> "idle", priceMap |-> NoMap, tickSize |-> 0, targetTickSize |-> 0,
     full |-> NoBook, aggregated |-> NoBook]

BookInit == orderBook = BookIdle

\* project(): BookBuilder.build(priceMap, marketTickSize)
BuildBook ==
    /\ orderBook.phase = "idle"
    /\ \E bids \in BookSides, asks \in BookSides, tickSize \in TickSizes :
         LET priceMap == [bids |-> bids, asks |-> asks]
         IN  orderBook' = [phase |-> "built", priceMap |-> priceMap,
                      tickSize |-> tickSize, targetTickSize |-> 0,
                      full |-> Build(priceMap, tickSize),
                      aggregated |-> NoBook]
    /\ UNCHANGED <<dpVars, mqVars, wsVars, backoff, pxVars, exVars>>

\* project(): Aggregator.aggregate(book, preferredTickSize, marketTickSize),
\* the preferred tick size being the market's or a coarser one
AggregateBook ==
    /\ orderBook.phase = "built"
    /\ \E targetTickSize \in {t \in TickSizes : t >= orderBook.tickSize} :
         orderBook' = [orderBook EXCEPT
                         !.phase = "aggregated",
                         !.targetTickSize = targetTickSize,
                         !.aggregated = Aggregate(orderBook.full, targetTickSize,
                                                  orderBook.tickSize)]
    /\ UNCHANGED <<dpVars, mqVars, wsVars, backoff, pxVars, exVars>>

\* project() returns
BookReturn ==
    /\ orderBook.phase \in {"built", "aggregated"}
    /\ orderBook' = BookIdle
    /\ UNCHANGED <<dpVars, mqVars, wsVars, backoff, pxVars, exVars>>

BookNext == BuildBook \/ AggregateBook \/ BookReturn

(***************************************************************************)
(* BtcAggregatedPriceService                                               *)
(*                                                                         *)
(* Prices are counted in quarters of a cent (100 USD is 40000) and the     *)
(* USDT/USD rate in thousandths (1.01 is 1010).  The prices and rates of   *)
(* the frames are such that every converted price is an even number, so    *)
(* the mean of two of them is a whole number, and no two medians lie       *)
(* exactly 0.01 apart (where the comparison with the epsilon would hang    *)
(* on the rounding of the doubles).                                        *)
(***************************************************************************)
MaxNow == 3         \* Date.now() goes up to MaxNow

Epsilon == 4        \* 0.01

\* EXCHANGES: the type of each source
Exchanges ==
    [BINANCE |-> "USDT", OKX |-> "USDT", COINBASE |-> "USD",
     KRAKEN_BTC |-> "USD", BITSTAMP |-> "USD", FX_KRAKEN |-> "FX"]
ExchangeIds == DOMAIN Exchanges
\* the order in which start() creates the connections
ExchangeOrder ==
    <<"BINANCE", "OKX", "COINBASE", "KRAKEN_BTC", "BITSTAMP", "FX_KRAKEN">>

\* the number NaN (no price and no rate is negative)
NaN == 0 - 1

\* the mid prices the frames of the USD sources carry: 100.00 and 100.005
UsdMids == {40000, 40002}
\* the mid prices the frames of the USDT sources carry: 101.00
UsdtMids == {40400}
\* the rates the frames of the FX source carry: 1.000 and 1.010
FxRates == {1000, 1010}

\* What a frame holds for the handler of source id:
\*   quote        the fields its branch reads, with numbers (their mean: mid)
\*   notJson      text JSON.parse rejects
\*   noFields     JSON without the fields the branch tests
\*   notNumeric   the fields the branch tests, without a number in them
\*                (parseFloat gives NaN), e.g. [1, {"b": [], "a": []}]
Frames(id) ==
    {[kind |-> "quote", mid |-> m] :
        m \in CASE Exchanges[id] = "USD" -> UsdMids
                [] Exchanges[id] = "USDT" -> UsdtMids
                [] OTHER -> FxRates}
      \cup {[kind |-> k, mid |-> 0] : k \in {"notJson", "noFields", "notNumeric"}}

Service ==
    [sourcePrices |-> sourcePrices, sourceTypes |-> sourceTypes,
     usdtRate |-> usdtRate, hasValidUsdtRate |-> hasValidUsdtRate,
     currentPrice |-> currentPrice, lastUpdateTimestamp |-> lastUpdateTimestamp,
     isStarted |-> isStarted, connections |-> connections, emitted |-> <<>>]

\* price * this.usdtRate
Convert(price, rate) == IF rate = NaN THEN NaN ELSE (price * rate) \div 1000

\* (a + b) / 2
Mean(a, b) == IF a = NaN \/ b = NaN THEN NaN ELSE (a + b) \div 2

\* Math.abs(a - b) > epsilon
DiffersByMoreThan(a, b, epsilon) ==
    /\ a # NaN /\ b # NaN
    /\ (IF a >= b THEN a - b ELSE b - a) > epsilon

\* variant: a USDT source without a rate counts as a USD source
RECURSIVE ActiveFromOneToOne(_, _)
ActiveFromOneToOne(svc, i) ==
    IF i > Len(ExchangeOrder) THEN <<>>
    ELSE LET id == ExchangeOrder[i]
             rest == ActiveFromOneToOne(svc, i + 1)
         IN  IF ~MapHas(svc.sourcePrices, id) \/ svc.sourcePrices[id] <= 0
               THEN rest
             ELSE IF svc.sourceTypes[id] = "USD" \/ ~svc.hasValidUsdtRate
               THEN <<svc.sourcePrices[id]>> \o rest
             ELSE <<Convert(svc.sourcePrices[id], svc.usdtRate)>> \o rest

GetActiveSourcesOneToOne(svc) == ActiveFromOneToOne(svc, 1)

\* getActiveSources over the ids from the i-th of ExchangeOrder on
RECURSIVE ActiveFrom(_, _)
ActiveFrom(svc, i) ==
    IF i > Len(ExchangeOrder) THEN <<>>
    ELSE LET id == ExchangeOrder[i]
             rest == ActiveFrom(svc, i + 1)
         IN  IF ~MapHas(svc.sourcePrices, id) \/ svc.sourcePrices[id] <= 0
               THEN rest
             ELSE IF svc.sourceTypes[id] = "USD"
               THEN <<svc.sourcePrices[id]>> \o rest
             ELSE IF svc.sourceTypes[id] = "USDT" /\ svc.hasValidUsdtRate
               THEN <<Convert(svc.sourcePrices[id], svc.usdtRate)>> \o rest
             ELSE rest

\* getActiveSources
GetActiveSources(svc) == ActiveFrom(svc, 1)

\* activePrices.sort((a, b) => a - b) of numbers
RECURSIVE SortAscending(_)
SortAscending(prices) ==
    IF prices = <<>> THEN <<>>
    ELSE LET x == Head(prices)
             rest == SortAscending(Tail(prices))
             k == Cardinality({i \in 1..Len(rest) : rest[i] < x})
         IN  SubSeq(rest, 1, k) \o <<x>> \o SubSeq(rest, k + 1, Len(rest))

\* activePrices.sort((a, b) => a - b): with a NaN among the prices the
\* comparator is not consistent and the order the sort leaves is any
Sorted(prices) ==
    IF \E i \in 1..Len(prices) : prices[i] = NaN
      THEN {[i \in 1..Len(prices) |-> prices[f[i]]] :
              f \in Permutations(1..Len(prices))}
      ELSE {SortAscending(prices)}

\* the median of the sorted prices
Median(sorted) ==
    LET midIdx == Len(sorted) \div 2
    IN  IF Len(sorted) % 2 = 0
          THEN Mean(sorted[midIdx], sorted[midIdx + 1])
          ELSE sorted[midIdx + 1]

\* variant: the median is stored and reported whether it moved or not
UpdateAlways(svc, median, n, now) ==
    [svc EXCEPT
       !.currentPrice = median,
       !.lastUpdateTimestamp = now,
       !.emitted = Append(@, [price |-> median, timestamp |-> now,
                              activeSources |-> n, usdtRate |-> svc.usdtRate])]

\* the tail of runAggregation: store and report the median if it moved
Update(svc, median, n, now) ==
    IF DiffersByMoreThan(median, svc.currentPrice, Epsilon)
      THEN [svc EXCEPT
              !.currentPrice = median,
              !.lastUpdateTimestamp = now,
              !.emitted = Append(@, [price |-> median, timestamp |-> now,
                                     activeSources |-> n,
                                     usdtRate |-> svc.usdtRate])]
      ELSE svc

\* variant: two active sources are enough
QuorumOfTwo(activePrices) == Len(activePrices) >= 2

\* the quorum of runAggregation
Quorum(activePrices) == Len(activePrices) >= 3

\* runAggregation: the services it may leave
RunAggregation(svc, now) ==
    LET activePrices == GetActiveSources(svc)
    IN  IF ~Quorum(activePrices) THEN {svc}
        ELSE {Update(svc, median, Len(activePrices), now) :
                median \in {Median(sorted) : sorted \in Sorted(activePrices)}}

\* BtcAggregatedPriceService.handleMessage: the services it may leave; whatever is thrown inside is
\* caught and ignored
ServiceHandleMessage(svc, id, frame, now) ==
    IF frame.kind = "notJson" THEN {svc}
    ELSE IF id = "FX_KRAKEN"
      THEN IF frame.kind = "noFields" THEN {svc}
           ELSE LET rate == IF frame.kind = "quote" THEN frame.mid ELSE NaN
                IN  RunAggregation([svc EXCEPT !.usdtRate = rate,
                                               !.hasValidUsdtRate = TRUE], now)
    ELSE LET mid == CASE frame.kind = "quote" -> frame.mid
                      [] frame.kind = "noFields" -> 0
                      [] OTHER -> NaN
         IN  IF mid # NaN /\ mid > 0
               THEN RunAggregation(
                        [svc EXCEPT !.sourcePrices = MapSet(@, id, mid),
                                    !.sourceTypes = MapSet(@, id, Exchanges[id])],
                        now)
               ELSE {svc}

\* start: a connection is created for every exchange
Start(svc) ==
    IF svc.isStarted THEN svc
    ELSE [svc EXCEPT !.isStarted = TRUE,
                     !.connections = [id \in ExchangeIds |-> "CONNECTED"]]

\* stop: every connection is destroyed, the connections and the source
\* prices are cleared
Stop(svc) ==
    IF ~svc.isStarted THEN svc
    ELSE [svc EXCEPT !.isStarted = FALSE,
                     !.connections = EmptyMap,
                     !.sourcePrices = EmptyMap]

\* variant: the close of a connection drops the price cached for its source
ServiceOnCloseDropsPrice(svc, id) ==
    [svc EXCEPT !.connections = MapSet(@, id, "RECONNECTING"),
                !.sourcePrices = MapDelete(@, id)]

\* the connection of source id has closed and schedules its reconnect
\* (maxReconnectAttempts 0); the service's onClose only logs
ServiceOnClose(svc, id) ==
    [svc EXCEPT !.connections = MapSet(@, id, "RECONNECTING")]

\* the connection of source id has opened again; onOpen subscribes
ServiceOnOpen(svc, id) ==
    [svc EXCEPT !.connections = MapSet(@, id, "CONNECTED")]

\* hasValidPrice
HasValidPrice(svc) ==
    svc.currentPrice # NaN /\ svc.currentPrice > 0 /\ Len(GetActiveSources(svc)) >= 3

\* the method that ran, for handleMessage the kind of frame it was given,
\* and the price and timestamp held when it was called
PxOp(name, kind) ==
    [name |-> name, kind |-> kind,
     price |-> currentPrice, timestamp |-> lastUpdateTimestamp]

\* new BtcAggregatedPriceService({onPriceUpdate})
PxInit ==
    /\ sourcePrices = EmptyMap
    /\ sourceTypes = EmptyMap
    /\ usdtRate = 0
    /\ hasValidUsdtRate = FALSE
    /\ currentPrice = 0
    /\ lastUpdateTimestamp = 0
    /\ isStarted = FALSE
    /\ connections = EmptyMap
    /\ pxOp = PxOp("new", "none")
    /\ emitted = <<>>

PxInstall(op, svc) ==
    /\ sourcePrices' = svc.sourcePrices
    /\ sourceTypes' = svc.sourceTypes
    /\ usdtRate' = svc.usdtRate
    /\ hasValidUsdtRate' = svc.hasValidUsdtRate
    /\ currentPrice' = svc.currentPrice
    /\ lastUpdateTimestamp' = svc.lastUpdateTimestamp
    /\ isStarted' = svc.isStarted
    /\ connections' = svc.connections
    /\ pxOp' = op
    /\ emitted' = svc.emitted
    /\ UNCHANGED <<dpVars, mqVars, wsVars, fnVars, exVars>>

CallStart == \E svc \in {Start(Service)} : PxInstall(PxOp("start", "none"), svc)

CallStop == \E svc \in {Stop(Service)} : PxInstall(PxOp("stop", "none"), svc)

\* onMessage of the connection of source id; the connections exist between
\* start() and stop(), and Date.now() is later than the last update
SourceMessage ==
    /\ isStarted
    /\ lastUpdateTimestamp < MaxNow
    /\ \E id \in {x \in DOMAIN connections : connections[x] = "CONNECTED"} :
         \E frame \in Frames(id) :
           \E svc \in ServiceHandleMessage(Service, id, frame,
                                            lastUpdateTimestamp + 1) :
             PxInstall(PxOp("message", frame.kind), svc)

PxNext == CallStart \/ CallStop \/ SourceMessage

\* the connections whose close events are followed
ClosingSources == {"COINBASE"}
MaxConnNow == 1     \* Date.now() goes up to MaxConnNow while connections close

\* onMessage of a connection that is up, as SourceMessage
ConnectedMessage ==
    /\ isStarted
    /\ lastUpdateTimestamp < MaxConnNow
    /\ \E id \in {x \in DOMAIN connections : connections[x] = "CONNECTED"} :
         \E frame \in Frames(id) :
           \E svc \in ServiceHandleMessage(Service, id, frame,
                                            lastUpdateTimestamp + 1) :
             PxInstall(PxOp("message", frame.kind), svc)

\* the close event of the connection of a source
SourceClose ==
    \E id \in {x \in ClosingSources \cap DOMAIN connections :
                  connections[x] = "CONNECTED"} :
      \E svc \in {ServiceOnClose(Service, id)} :
        PxInstall(PxOp("close", id), svc)

\* the reconnect of the connection of a source succeeds
SourceOpen ==
    \E id \in {x \in DOMAIN connections : connections[x] # "CONNECTED"} :
      \E svc \in {ServiceOnOpen(Service, id)} :
        PxInstall(PxOp("open", id), svc)

\* the price service with connections that close and reconnect
PxConnNext ==
    CallStart \/ CallStop \/ ConnectedMessage \/ SourceClose \/ SourceOpen

(***************************************************************************)
(* Projector.project: the rows each side of a book shows.  A book is given *)
(* by its four level arrays; a level carries a price, a size and a value.  *)
(***************************************************************************)
MaxRows == 11       \* levels of one side of the book projected

\* an array of n levels, best price first
ProjectLevels(n) == [i \in 1..n |-> [price |-> i, size |-> 2, value |-> 2 * i]]

\* rows.slice(0, end)
Slice(rows, end) ==
    LET last == IF end < 0 THEN Max2(Len(rows) + end, 0) ELSE Min2(end, Len(rows))
    IN  SubSeq(rows, 1, last)

\* variant: no floor of 5 rows
RowLimitNoFloor(opposite) == 10 - opposite

\* Math.max(5, 10 - opposite): the rows a side may show in minified mode
RowLimit(opposite) == Max2(5, 10 - opposite)

\* Projector._processSide(levels, filter); limit is the end of the filter's
\* slice, NoLimit without a filter
NoLimit == 0 - 1

ProcessSide(levels, limit) ==
    LET rows == [i \in 1..Len(levels) |->
                   [price |-> levels[i].price,
                    size |-> levels[i].size,
                    value |-> levels[i].value,
                    netSize |-> SumSeq([j \in 1..i |-> levels[j].size]),
                    netValue |-> SumSeq([j \in 1..i |-> levels[j].value])]]
    IN  [rows |-> IF limit = NoLimit THEN rows ELSE Slice(rows, limit),
         hasLiquidity |-> Len(rows) > 0,
         totalSize |-> IF Len(rows) > 0 THEN rows[Len(rows)].netSize ELSE 0,
         totalValue |-> IF Len(rows) > 0 THEN rows[Len(rows)].netValue ELSE 0]

\* the two _processSide calls made for one side of the market
ProjectSide(side, minified) ==
    LET asks == ProcessSide(side.askArray,
                            IF minified THEN RowLimit(Len(side.bidArray))
                                        ELSE NoLimit)
        bids == ProcessSide(side.bidArray,
                            IF minified THEN RowLimit(Len(asks.rows))
                                        ELSE NoLimit)
    IN  [asks |-> asks, bids |-> bids,
         totalBidCount |-> Len(side.bidArray),
         totalAskCount |-> Len(side.askArray)]

\* Projector.project(book, {minified})
ProjectorProject(book, minified) ==
    [zero |-> ProjectSide(book.zero, minified),
     one |-> ProjectSide(book.one, minified)]

ProjectionIdle ==
    [phase |-> "idle", asks |-> 0, bids |-> 0, minified |-> FALSE,
     out |-> [none |-> TRUE]]

ProjectionInit == projection = ProjectionIdle

\* project(): Projector.project(finalBook, {minified}) on a book of a asks
\* and b bids; the complementary side has a level for each of them
ProjectBook ==
    /\ projection.phase = "idle"
    /\ \E a \in 0..MaxRows, b \in 0..MaxRows, minified \in BOOLEAN :
         LET book == [zero |-> [askArray |-> ProjectLevels(a),
                                bidArray |-> ProjectLevels(b)],
                      one |-> [askArray |-> ProjectLevels(b),
                               bidArray |-> ProjectLevels(a)]]
         IN  projection' = [phase |-> "projected", asks |-> a, bids |-> b,
                            minified |-> minified,
                            out |-> ProjectorProject(book, minified)]
    /\ UNCHANGED <<dpVars, mqVars, wsVars, fnVars, pxVars, ob, obOp>>

\* project() returns
ProjectReturn ==
    /\ projection.phase = "projected"
    /\ projection' = ProjectionIdle
    /\ UNCHANGED <<dpVars, mqVars, wsVars, fnVars, pxVars, ob, obOp>>

ProjectNext == ProjectBook \/ ProjectReturn

(***************************************************************************)
(* OrderBook (the standalone book of the Binance stream).  A price is its  *)
(* number; a quantity is a whole number of units of 0.00000001, the        *)
(* precision of the stream's quantities, so that the difference of two     *)
(* quantities printed by toFixed(8) is their exact difference.             *)
(***************************************************************************)
MaxDepthLevels == 1     \* levels of one depth update, both sides together

ObPrices == {100, 200}
ObQuantities == {0, 2}
TradeQuantities == {1, 2}

\* the lists of n [price, quantity] pairs of a depth update
DepthLevels(n) == [1..n -> ObPrices \X ObQuantities]

\* OrderBook.mergeSide(side, updates)
RECURSIVE MergeSide(_, _)
MergeSide(side, updates) ==
    IF updates = <<>> THEN side
    ELSE LET price == Head(updates)[1]
             qty == Head(updates)[2]
         IN  MergeSide(IF qty = 0 THEN MapDelete(side, price)
                                  ELSE MapSet(side, price, qty),
                       Tail(updates))

\* OrderBook.applyDepthUpdate(newBids, newAsks)
ApplyDepthUpdate(book, newBids, newAsks) ==
    [bids |-> MergeSide(book.bids, newBids),
     asks |-> MergeSide(book.asks, newAsks)]

\* variant: a level a trade has used up stays, with quantity 0
ApplyAggTradeKeepsEmpty(book, trade) ==
    LET side == IF trade.m THEN book.bids ELSE book.asks
        remaining == IF MapHas(side, trade.p) THEN side[trade.p] - trade.q ELSE 0
        next == IF ~MapHas(side, trade.p) THEN side
                ELSE IF remaining < 0 THEN MapDelete(side, trade.p)
                ELSE MapSet(side, trade.p, remaining)
    IN  IF trade.m THEN [book EXCEPT !.bids = next]
                   ELSE [book EXCEPT !.asks = next]

\* OrderBook.applyAggTrade(trade)
ApplyAggTrade(book, trade) ==
    LET side == IF trade.m THEN book.bids ELSE book.asks
        remaining == IF MapHas(side, trade.p) THEN side[trade.p] - trade.q ELSE 0
        next == IF ~MapHas(side, trade.p) THEN side
                ELSE IF remaining <= 0 THEN MapDelete(side, trade.p)
                ELSE MapSet(side, trade.p, remaining)
    IN  IF trade.m THEN [book EXCEPT !.bids = next]
                   ELSE [book EXCEPT !.asks = next]

\* OrderBook.getBestBid / getBestAsk: <<price, qty>>, or <<>> for null
GetBestBid(book) ==
    IF DOMAIN book.bids = {} THEN <<>>
    ELSE LET p == CHOOSE x \in DOMAIN book.bids : \A y \in DOMAIN book.bids : y <= x
         IN  <<p, book.bids[p]>>

GetBestAsk(book) ==
    IF DOMAIN book.asks = {} THEN <<>>
    ELSE LET p == CHOOSE x \in DOMAIN book.asks : \A y \in DOMAIN book.asks : x <= y
         IN  <<p, book.asks[p]>>

\* OrderBook.getSpread / getMidPrice: <<number>>, or <<>> for null
GetSpread(book) ==
    IF GetBestBid(book) = <<>> \/ GetBestAsk(book) = <<>> THEN <<>>
    ELSE <<GetBestAsk(book)[1] - GetBestBid(book)[1]>>

GetMidPrice(book) ==
    IF GetBestBid(book) = <<>> \/ GetBestAsk(book) = <<>> THEN <<>>
    ELSE <<(GetBestBid(book)[1] + GetBestAsk(book)[1]) \div 2>>

\* new OrderBook()
ObInit ==
    /\ ob = [bids |-> EmptyMap, asks |-> EmptyMap]
    /\ obOp = [name |-> "new"]

\* a depth message of the stream
DepthUpdate ==
    /\ \E nb \in 0..MaxDepthLevels : \E na \in 0..(MaxDepthLevels - nb) :
       \E newBids \in DepthLevels(nb), newAsks \in DepthLevels(na) :
         /\ ob' = ApplyDepthUpdate(ob, newBids, newAsks)
         /\ obOp' = [name |-> "applyDepthUpdate", newBids |-> newBids,
                     newAsks |-> newAsks, before |-> ob]
    /\ UNCHANGED <<dpVars, mqVars, wsVars, fnVars, pxVars, projection>>

\* an aggTrade message of the stream
AggTrade ==
    /\ \E p \in ObPrices, q \in TradeQuantities, m \in BOOLEAN :
         LET trade == [p |-> p, q |-> q, m |-> m]
         IN  /\ ob' = ApplyAggTrade(ob, trade)
             /\ obOp' = [name |-> "applyAggTrade", trade |-> trade, before |-> ob]
    /\ UNCHANGED <<dpVars, mqVars, wsVars, fnVars, pxVars, projection>>

ObNext == DepthUpdate \/ AggTrade

\* the projector and the standalone book at rest
ExInit == ProjectionInit /\ ObInit

\* the pure computations and the price service at rest
FnIdle == BackoffInit /\ BookInit /\ PxInit /\ ExInit


(***************************************************************************)
(* Specifications                                                          *)
(***************************************************************************)
InitDP ==
    DPInit /\ marketTickSizeByAsset = EmptyMap /\ MQStart /\ WSIdle /\ FnIdle
InitMQ == MQInit /\ DPInit /\ WSIdle /\ FnIdle
InitWS ==
    WSInit /\ DPInit /\ marketTickSizeByAsset = EmptyMap /\ MQStart /\ FnIdle
InitBackoff ==
    /\ BackoffInit /\ BookInit /\ PxInit /\ ExInit
    /\ DPInit /\ marketTickSizeByAsset = EmptyMap /\ MQStart /\ WSIdle
InitBook ==
    /\ BookInit /\ BackoffInit /\ PxInit /\ ExInit
    /\ DPInit /\ marketTickSizeByAsset = EmptyMap /\ MQStart /\ WSIdle
InitPrice ==
    /\ PxInit /\ BackoffInit /\ BookInit /\ ExInit
    /\ DPInit /\ marketTickSizeByAsset = EmptyMap /\ MQStart /\ WSIdle
InitProject ==
    /\ ProjectionInit /\ ObInit /\ PxInit /\ BackoffInit /\ BookInit
    /\ DPInit /\ marketTickSizeByAsset = EmptyMap /\ MQStart /\ WSIdle
InitOrderBook ==
    /\ ObInit /\ ProjectionInit /\ PxInit /\ BackoffInit /\ BookInit
    /\ DPInit /\ marketTickSizeByAsset = EmptyMap /\ MQStart /\ WSIdle
\* an owner that sets no attempt cap, as the price service does
InitWSLive ==
    /\ url \in Urls
    /\ maxReconnectAttempts = 0
    /\ throwing = {}
    /\ WSStart
    /\ DPInit /\ marketTickSizeByAsset = EmptyMap /\ MQStart /\ FnIdle
\* an owner one of whose callbacks throws from one kind of invocation
InitWSThrow ==
    /\ url \in Urls
    /\ maxReconnectAttempts \in {0, MaxAttempts}
    /\ throwing \in {{}} \cup {{t} : t \in ThrowPoints}
    /\ WSStart
    /\ DPInit /\ marketTickSizeByAsset = EmptyMap /\ MQStart /\ FnIdle

SpecDP == InitDP /\ [][DPNext]_vars
SpecMQ == InitMQ /\ [][MQNext]_vars
SpecWS == InitWS /\ [][WSNext]_vars
SpecWSThrow == InitWSThrow /\ [][WSNext]_vars
\* Node runs a due timer, a socket that is closing emits its close event,
\* and an endpoint that is tried again and again accepts in the end
SpecWSLive ==
    /\ InitWSLive
    /\ [][WSLiveNext]_vars
    /\ WF_vars(ReconnectFires)
    /\ WF_vars(SocketClose)
    /\ SF_vars(SocketOpen)
SpecBackoff == InitBackoff /\ [][BackoffNext]_vars
SpecBook == InitBook /\ [][BookNext]_vars
SpecPrice == InitPrice /\ [][PxNext]_vars
SpecPriceConn == InitPrice /\ [][PxConnNext]_vars
SpecQuery == InitMQ /\ [][QueryNext]_vars
SpecProject == InitProject /\ [][ProjectNext]_vars
SpecOrderBook == InitOrderBook /\ [][ObNext]_vars


(***************************************************************************)
(* Claims about MessageQueue.process (SpecMQ)                              *)
(***************************************************************************)
\* the batch without its stale deltas
WithoutStaleDeltas(ctx, batch) ==
    LET Keep(e) == ~IsStaleDelta(ctx, batch, e)
    IN  SelectSeq(batch, Keep)

\* C1: a price-change delta whose timestamp is <= the asset's last-applied
\* timestamp (the stored one, raised by the snapshots of the same batch) is
\* discarded: the price maps process() leaves are those it leaves when the
\* stale deltas are not in the batch at all.
C1_StaleDeltaDiscarded ==
    mqPhase = "processed" =>
        priceMaps = Process(mqPrev, WithoutStaleDeltas(mqPrev, mqBatch)).ctx.priceMaps

\* C1 witness: a stale delta was drained that would have changed the map
C1_Witness ==
    /\ mqPhase = "processed"
    /\ \E i \in 1..Len(mqBatch) :
         /\ IsStaleDelta(mqPrev, mqBatch, mqBatch[i])
         /\ mqBatch[i].assetId \in DOMAIN priceMaps
         /\ Delta(priceMaps[mqBatch[i].assetId], mqBatch[i].data).next
              # priceMaps[mqBatch[i].assetId]

\* the Map m holds exactly the levels of the list: its keys are the list's
\* prices and each key maps to the size of the last level with that price
ExactlyLevels(m, levels) ==
    /\ DOMAIN m = {levels[i].price : i \in 1..Len(levels)}
    /\ \A i \in 1..Len(levels) :
         (\A j \in (i + 1)..Len(levels) : levels[j].price # levels[i].price)
            => m[levels[i].price] = levels[i].size

NoDeltaApplied(ctx, batch, a) ==
    \A i \in 1..Len(batch) :
        (batch[i].assetId = a /\ batch[i].type = "price_change")
           => IsStaleDelta(ctx, batch, batch[i])

\* C2: a snapshot is applied whatever its timestamp and replaces the asset's
\* map: when a process() call applied snapshots and no delta to an asset, the
\* asset's map holds exactly the bid and ask levels of the last snapshot of the
\* batch, whatever the map held before.
C2_SnapshotReplaces ==
    mqPhase = "processed" =>
        \A a \in Assets :
            LET snaps == OfType(mqBatch, a, "book")
            IN  (snaps # <<>> /\ NoDeltaApplied(mqPrev, mqBatch, a)) =>
                    /\ a \in DOMAIN priceMaps
                    /\ ExactlyLevels(priceMaps[a].bids,
                                     SnapshotLevels(snaps[Len(snaps)].data, "bids"))
                    /\ ExactlyLevels(priceMaps[a].asks,
                                     SnapshotLevels(snaps[Len(snaps)].data, "asks"))

\* C2 witness: S1 = SnapA was applied by an earlier call, S2 = SnapB arrives
\* with an older timestamp, and no level of S1 survives
C2_Witness ==
    /\ mqPhase = "processed"
    /\ "a1" \in DOMAIN mqPrev.priceMaps
    /\ mqPrev.priceMaps["a1"] = Snapshot(SnapA).next
    /\ mqBatch = <<[type |-> "book", assetId |-> "a1", ts |-> 1, data |-> SnapB]>>
    /\ mqPrev.assetLastBookTs["a1"] > 1
    /\ DOMAIN priceMaps["a1"].bids = {Dec(0, <<6, 0, 5>>)}
    /\ DOMAIN priceMaps["a1"].asks = {}

\* the last-applied timestamp never decreases from one process() call to the next
LastTsMonotone ==
    mqPhase = "processed" =>
        \A a \in DOMAIN mqPrev.assetLastBookTs :
            /\ a \in DOMAIN assetLastBookTs
            /\ assetLastBookTs[a] >= mqPrev.assetLastBookTs[a]

\* C5 (as claimed): once process() has applied events to an asset, its
\* last-applied timestamp is the maximum timestamp of all the events applied to
\* it so far (snapshots and deltas), and it never decreases.
C5_LastTsIsMaxApplied ==
    /\ \A a \in DOMAIN mqMaxAppliedTs :
         /\ a \in DOMAIN assetLastBookTs
         /\ assetLastBookTs[a] = mqMaxAppliedTs[a]
    /\ LastTsMonotone

\* C5 (amended): the last-applied timestamp is the maximum timestamp of the
\* snapshots applied to the asset so far, 0 when there is none, and it never
\* decreases.
C5_LastTsIsMaxSnapshot ==
    /\ \A a \in DOMAIN mqMaxAppliedTs : a \in DOMAIN assetLastBookTs
    /\ \A a \in DOMAIN assetLastBookTs :
         assetLastBookTs[a] = GetOr(mqMaxSnapshotTs, a, 0)
    /\ LastTsMonotone

\* C5 witness: a snapshot and then a newer delta were applied to a1 by
\* successive calls; the last-applied timestamp is still the snapshot's
C5_Witness ==
    /\ mqPhase = "processed"
    /\ "a1" \in DOMAIN mqPrev.assetLastBookTs
    /\ "a1" \in DOMAIN mqMaxSnapshotTs
    /\ mqMaxAppliedTs["a1"] > mqMaxSnapshotTs["a1"]
    /\ assetLastBookTs["a1"] = mqMaxSnapshotTs["a1"]

(***************************************************************************)
(* Claims about DeltaProcessor (SpecDP)                                    *)
(***************************************************************************)
\* the side of the map a change addresses: the bid side for a BUY (in any
\* letter case), the ask side otherwise
SideOfChange(change) == IF change.side \in {"BUY", "buy"} THEN "bids" ELSE "asks"

\* the side of the map the caller handed in (an undefined map has no entries)
PrevSide(side) == IF IsMap(dpPrev) THEN dpPrev[side] ELSE EmptyMap

\* C3 (as claimed): after DeltaProcessor.delta, for every change of the delta
\* with size zero the resulting map has no entry at that price on the side the
\* change addresses.
C3_ZeroSizeAbsent ==
    dpOp.kind = "delta" =>
        \A i \in 1..Len(dpOp.data.price_changes) :
            LET c == dpOp.data.price_changes[i]
            IN  ParseFloatIsZero(c.size) => c.price \notin DOMAIN dpMap[SideOfChange(c)]

\* C3 (amended): after DeltaProcessor.delta, on each side every price the delta
\* does not address keeps its entry, and every price it addresses is decided by
\* the last change for that price and side: absent when that change's size is
\* zero, mapped to that change's size otherwise.
C3_LastChangeDecides ==
    dpOp.kind = "delta" =>
        \A side \in {"bids", "asks"} :
            /\ DOMAIN dpMap[side] \subseteq
                 (DOMAIN PrevSide(side))
                   \cup {dpOp.data.price_changes[i].price :
                           i \in 1..Len(dpOp.data.price_changes)}
            /\ \A p \in Prices :
                 LET cs == dpOp.data.price_changes
                     idx == {i \in 1..Len(cs) :
                               cs[i].price = p /\ SideOfChange(cs[i]) = side}
                 IN  IF idx = {}
                       THEN /\ (p \in DOMAIN dpMap[side]) = (p \in DOMAIN PrevSide(side))
                            /\ p \in DOMAIN dpMap[side] => dpMap[side][p] = PrevSide(side)[p]
                       ELSE LET last == CHOOSE i \in idx : \A j \in idx : j <= i
                            IN  IF ParseFloatIsZero(cs[last].size)
                                  THEN p \notin DOMAIN dpMap[side]
                                  ELSE /\ p \in DOMAIN dpMap[side]
                                       /\ dpMap[side][p] = cs[last].size

\* C3 witness: a delta whose first change removes an existing bid with size
\* "0.0" and whose second change, a lower-case buy, sets it again
C3_Witness ==
    /\ dpOp.kind = "delta"
    /\ Len(dpOp.data.price_changes) = 2
    /\ LET c1 == dpOp.data.price_changes[1]
           c2 == dpOp.data.price_changes[2]
       IN  /\ c1.side = "BUY" /\ c1.size = Dec(0, <<0>>)
           /\ c1.price \in DOMAIN PrevSide("bids")
           /\ c2.side = "buy" /\ c2.price = c1.price /\ ~ParseFloatIsZero(c2.size)
           /\ dpMap.bids[c1.price] = c2.size
           /\ PrevSide("bids")[c1.price] # c2.size

\* C4 (as claimed): no bid or ask level of a price map has size zero
C4_NoZeroSizeLevel ==
    IsMap(dpMap) =>
        \A side \in {"bids", "asks"} :
            \A p \in DOMAIN dpMap[side] : ~ParseFloatIsZero(dpMap[side][p])


(***************************************************************************)
(* WebSocketConnection: claims checked under SpecWS                        *)
(***************************************************************************)
CapExhausted ==
    maxReconnectAttempts > 0 /\ reconnectAttempts >= maxReconnectAttempts

\* C6: a socket open event moves the state from CONNECTING to CONNECTED; a
\* socket close event in any state other than CLOSED or DISCONNECTED moves it
\* to RECONNECTING with the reconnect timer armed, provided the attempt cap is
\* not exhausted.
C6_OpenAndCloseTransitions ==
    [][/\ (wsOp'.name = "open" /\ state = "CONNECTING") => state' = "CONNECTED"
       /\ (/\ wsOp'.name = "close"
           /\ state \notin {"CLOSED", "DISCONNECTED"}
           /\ ~CapExhausted)
            => (state' = "RECONNECTING" /\ reconnectTimer')]_vars

\* a close event has just moved the connection to RECONNECTING
C6_Witness ==
    /\ wsOp.name = "close"
    /\ state = "RECONNECTING"
    /\ notified = <<"RECONNECTING">>
    /\ reconnectTimer

\* C7: after destroy() the state is CLOSED, both timers are cancelled and no
\* socket is attached; while the state is CLOSED no heartbeat tick, reconnect
\* timer expiry or socket event changes the state, sends a ping or creates a
\* socket; a second destroy() changes nothing.
C7_DestroyIsTerminal ==
    /\ [](state = "CLOSED" =>
            (~intervalTimer /\ ~reconnectTimer /\ wsClient = "null"))
    /\ [][wsOp'.name = "destroy" =>
            (/\ state' = "CLOSED"
             /\ ~intervalTimer' /\ ~reconnectTimer' /\ wsClient' = "null")]_vars
    /\ [][(/\ state = "CLOSED"
           /\ wsOp'.name \in {"tick", "timer", "open", "message", "pong",
                              "error", "close"})
            => (state' = "CLOSED" /\ sent' = <<>> /\ ~created')]_vars
    /\ [][(state = "CLOSED" /\ wsOp'.name = "destroy") =>
            (/\ UNCHANGED <<state, wsClient, intervalTimer, tickIn,
                            reconnectTimer, lastPingTs, pongAge,
                            reconnectAttempts>>
             /\ notified' = <<>> /\ sent' = <<>> /\ ~created' /\ ~raised')]_vars

\* a second destroy() has just returned
C7_Witness ==
    /\ wsOp.name = "destroy"
    /\ state = "CLOSED"
    /\ notified = <<>>

\* C8: once CLOSED, no connect(), disconnect(), reconnect(), sendMessage() or
\* destroy() call changes the state from CLOSED or creates a socket; only
\* reset() leaves CLOSED.
C8_ClosedUntilReset ==
    [][(/\ state = "CLOSED"
        /\ wsOp'.name \in {"connect", "disconnect", "reconnect", "sendMessage",
                           "destroy"})
         => (state' = "CLOSED" /\ ~created')]_vars

\* C9: with a finite cap N > 0, once N reconnect attempts have been counted
\* the next close event arms no timer, sets DISCONNECTED and notifies
\* DISCONNECTED without an exception; after that no socket is created unless
\* the owner calls connect() or reconnect().
C9_GiveUpAtCap ==
    /\ [][(/\ wsOp'.name = "close"
           /\ state \notin {"CLOSED", "DISCONNECTED"}
           /\ maxReconnectAttempts > 0
           /\ reconnectAttempts = maxReconnectAttempts)
            => (/\ state' = "DISCONNECTED"
                /\ ~reconnectTimer'
                /\ notified' = <<"DISCONNECTED">>
                /\ ~raised')]_vars
    /\ [](state = "DISCONNECTED" => (~reconnectTimer /\ ~intervalTimer))
    /\ [][(state = "DISCONNECTED" /\ created') =>
            wsOp'.name \in {"connect", "reconnect"}]_vars

\* the close event after the last counted attempt has just given up
C9_Witness ==
    /\ wsOp.name = "close"
    /\ state = "DISCONNECTED"
    /\ notified = <<"DISCONNECTED">>
    /\ maxReconnectAttempts > 0
    /\ reconnectAttempts = maxReconnectAttempts

IsPing(x) == x \in {"PING", "ping"}

C11_BookkeepingSurvivesThrow ==
    [][/\ (/\ wsOp'.name = "close"
           /\ state \notin {"CLOSED", "DISCONNECTED"}
           /\ ~CapExhausted)
            => (/\ state' = "RECONNECTING"
                /\ reconnectAttempts' = reconnectAttempts + 1
                /\ reconnectTimer')
       /\ wsOp'.name = "open" => (reconnectAttempts' = 0 /\ intervalTimer')]_vars

\* the fields of the connection that a no-op leaves alone
Fields ==
    <<state, wsClient, intervalTimer, tickIn, reconnectTimer, lastPingTs,
      pongAge, reconnectAttempts>>

\* C12: connect() in CONNECTED, CONNECTING, RECONNECTING or CLOSED changes
\* no field and creates no socket; from DISCONNECTED it moves to CONNECTING
\* and creates a socket.
C12_ConnectOnlyFromDisconnected ==
    [][wsOp'.name = "connect" =>
         IF state = "DISCONNECTED"
         THEN state' = "CONNECTING" /\ created' /\ wsClient' = "CONNECTING"
         ELSE UNCHANGED Fields /\ ~created' /\ notified' = <<>>]_vars

\* connect() has just returned on a connection that is CONNECTED
C12_Witness ==
    /\ wsOp.name = "connect"
    /\ state = "CONNECTED"
    /\ wsClient = "OPEN"
    /\ ~created

\* C13: disconnect() leaves the state DISCONNECTED with the reconnect timer
\* cancelled, the heartbeat stopped and no socket attached; while the state
\* is DISCONNECTED no timer is armed and no live socket is attached, so
\* nothing reconnects by itself: apart from destroy(), only connect() and
\* reconnect() leave DISCONNECTED, and connect() moves to CONNECTING.
C13_DisconnectStopsReconnection ==
    /\ [][wsOp'.name = "disconnect" =>
            (/\ state' = "DISCONNECTED"
             /\ ~reconnectTimer' /\ ~intervalTimer' /\ wsClient' = "null")]_vars
    /\ [](state = "DISCONNECTED" =>
            (/\ ~reconnectTimer /\ ~intervalTimer
             /\ wsClient \in {"null", "CLOSED"}))
    /\ [][(state = "DISCONNECTED" /\ state' \notin {"DISCONNECTED", "CLOSED"}) =>
            (wsOp'.name \in {"connect", "reconnect"} /\ state' = "CONNECTING")]_vars
    /\ [][(state = "DISCONNECTED" /\ wsOp'.name = "connect") =>
            (state' = "CONNECTING" /\ created')]_vars

\* disconnect() has just taken a connection to DISCONNECTED
C13_Witness ==
    /\ wsOp.name = "disconnect"
    /\ state = "DISCONNECTED"
    /\ notified = <<"DISCONNECTED">>
    /\ reconnectAttempts > 0

\* C14: reset() in CLOSED moves to DISCONNECTED with the attempt counter at
\* 0, and a connect() right after it moves to CONNECTING and creates a
\* socket; reset() in any other state changes no field.
C14_ResetOnlyFromClosed ==
    /\ [][wsOp'.name = "reset" =>
            IF state = "CLOSED"
            THEN /\ state' = "DISCONNECTED"
                 /\ reconnectAttempts' = 0
                 /\ notified' = <<"DISCONNECTED">>
            ELSE UNCHANGED Fields /\ notified' = <<>>]_vars
    /\ [][(/\ wsOp.name = "reset" /\ notified = <<"DISCONNECTED">>
           /\ wsOp'.name = "connect")
            => (state' = "CONNECTING" /\ created')]_vars

\* reset() has just revived a destroyed connection
C14_Witness ==
    /\ wsOp.name = "reset"
    /\ state = "DISCONNECTED"
    /\ notified = <<"DISCONNECTED">>

\* C15: sendMessage in a state other than CONNECTED returns false, sends
\* nothing, raises nothing and changes no field; it returns true only when
\* the payload was written to an open socket.
C15_SendMessageReportsDelivery ==
    [][wsOp'.name = "sendMessage" =>
         /\ state # "CONNECTED" =>
              (/\ returned' = "false" /\ sent' = <<>> /\ ~raised'
               /\ UNCHANGED Fields)
         /\ returned' = "true" =>
              (wsClient = "OPEN" /\ sent' = <<"payload">>)]_vars


(***************************************************************************)
(* Reconnect backoff: claims checked under SpecBackoff                     *)
(***************************************************************************)
\* the schedule the specification lists for base 1000 and cap 30000
ListedDelays == <<1000, 2000, 4000, 8000, 16000, 30000, 30000>>

\* C16: the reconnect delay never exceeds the maximum delay; with base 1000
\* and cap 30000 the attempt counter values 0..6 give, without jitter, 1000,
\* 2000, 4000, 8000, 16000, 30000, 30000, and jitter adds less than 1000 to
\* the uncapped ones.
C16_BackoffSchedule ==
    backoff.phase = "armed" =>
      /\ backoff.delay <= ReconnectMaxDelayMs
      /\ (backoff.base = ReconnectBaseDelayMs /\ backoff.attempts <= 6) =>
           LET listed == ListedDelays[backoff.attempts + 1]
           IN  /\ backoff.jitter = 0 => backoff.delay = listed
               /\ backoff.delay =
                    Min2(listed + backoff.jitter, ReconnectMaxDelayMs)

\* the delay for attempt counter 5 has been computed: 32000 capped to 30000
C16_Witness ==
    /\ backoff.phase = "armed"
    /\ backoff.base = ReconnectBaseDelayMs
    /\ backoff.attempts = 5
    /\ backoff.jitter = 0
    /\ backoff.delay = 30000


(***************************************************************************)
(* WebSocketConnection: the attempt counter (SpecWS)                       *)
(***************************************************************************)
\* every delay scheduleReconnect can compute from the counter value k is the
\* base delay plus the jitter
UsesBaseDelay(k) ==
    \A base \in BaseDelays, jitter \in Jitters :
      ReconnectDelay(base, ReconnectMaxDelayMs, k, jitter) = base + jitter

\* C17 as stated: every open resets the attempt counter to 0, the counter
\* always equals the number of reconnects scheduled since the last open, and
\* the reconnect scheduled by a close in CONNECTED uses the base delay.
C17_CounterCountsSinceOpen ==
    /\ [][wsOp'.name = "open" => reconnectAttempts' = 0]_vars
    /\ [](reconnectAttempts = scheduledSinceOpen)
    /\ [][(wsOp'.name = "close" /\ state = "CONNECTED") =>
            UsesBaseDelay(reconnectAttempts)]_vars

\* C17, amended: every open resets the attempt counter to 0, the counter
\* always equals the number of reconnects scheduled since the last open,
\* reconnect() call or reset() out of CLOSED, and the reconnect scheduled by
\* a close in CONNECTED uses the base delay.
C17_CounterCountsSinceRestart ==
    /\ [][wsOp'.name = "open" => reconnectAttempts' = 0]_vars
    /\ [](reconnectAttempts = scheduledSinceRestart)
    /\ [][(wsOp'.name = "close" /\ state = "CONNECTED") =>
            UsesBaseDelay(reconnectAttempts)]_vars

\* a reconnect was scheduled, the owner called reconnect(), and the next
\* close has just scheduled another one: two since the last open, counter 1
C17_Witness ==
    /\ wsOp.name = "close"
    /\ reconnectTimer
    /\ reconnectAttempts = 1
    /\ scheduledSinceOpen = 2

\* C18: when the reconnect timer fires in RECONNECTING the state becomes
\* CONNECTING, and the state is CONNECTING right before it becomes CONNECTED.
C18_ReconnectPassesThroughConnecting ==
    /\ [][(wsOp'.name = "timer" /\ state = "RECONNECTING") =>
            state' = "CONNECTING"]_vars
    /\ [][(state # "CONNECTED" /\ state' = "CONNECTED") =>
            state = "CONNECTING"]_vars


(***************************************************************************)
(* Claims about BookBuilder.build and Aggregator.aggregate (SpecBook)      *)
(***************************************************************************)
\* the price and the size of each level, in order
PriceAndSize(levels) ==
    [i \in 1..Len(levels) |-> [price |-> levels[i].price, size |-> levels[i].size]]

\* 1 - p kept within [tick, 1 - tick], at the precision of the tick size
ComplementaryPrice(p, tickSize) ==
    ToFixed(Min2(Thousandths - tickSize, Max2Int(tickSize, Thousandths - p)),
            GetPrecisionFromTickSize(tickSize))

\* the levels with their prices replaced by the complementary ones
Inverted(levels, tickSize) ==
    [i \in 1..Len(levels) |->
       [price |-> ComplementaryPrice(levels[i].price, tickSize),
        size |-> levels[i].size]]

\* the two sequences hold the same elements the same number of times
SameLevels(s, t) ==
    /\ Len(s) = Len(t)
    /\ \A i \in 1..Len(s) :
         Cardinality({j \in 1..Len(s) : s[j] = s[i]})
           = Cardinality({j \in 1..Len(t) : t[j] = s[i]})

IsSorted(levels, ascending) ==
    \A i \in 1..Len(levels), j \in 1..Len(levels) :
       i < j => IF ascending THEN levels[i].price <= levels[j].price
                             ELSE levels[i].price >= levels[j].price

\* C19: in every book that build returns, the complementary bids are the
\* native asks, each with its size and with its price p replaced by 1 - p
\* clamped to [tick, 1 - tick] at the precision of the tick size, sorted by
\* descending price, and the complementary asks are the native bids
\* inverted the same way, sorted by ascending price.
C19_ComplementaryIsClampedInverse ==
    orderBook.phase = "built" =>
        LET full == orderBook.full
            tickSize == orderBook.tickSize
        IN  /\ SameLevels(PriceAndSize(full.one.bidArray),
                          Inverted(full.zero.askArray, tickSize))
            /\ IsSorted(full.one.bidArray, FALSE)
            /\ SameLevels(PriceAndSize(full.one.askArray),
                          Inverted(full.zero.bidArray, tickSize))
            /\ IsSorted(full.one.askArray, TRUE)

\* the price, the size and the cumulative size and value of each level
Cumulative(levels) ==
    [i \in 1..Len(levels) |->
       [price |-> levels[i].price, size |-> levels[i].size,
        netSize |-> levels[i].netSize, netValue |-> levels[i].netValue]]

\* C20: aggregating a built book at the tick size it was built with changes
\* no level: on the native and on the complementary side, bids and asks,
\* aggregate(build(priceMap, t), t, t) has the levels of build(priceMap, t),
\* with the same price, size, cumulative size and cumulative value.
C20_AggregationIdempotent ==
    (orderBook.phase = "aggregated"
       /\ orderBook.targetTickSize = orderBook.tickSize) =>
        LET full == orderBook.full
            aggregated == orderBook.aggregated
        IN  /\ Cumulative(aggregated.zero.bidArray) = Cumulative(full.zero.bidArray)
            /\ Cumulative(aggregated.zero.askArray) = Cumulative(full.zero.askArray)
            /\ Cumulative(aggregated.one.bidArray) = Cumulative(full.one.bidArray)
            /\ Cumulative(aggregated.one.askArray) = Cumulative(full.one.askArray)

\* the books the last project() call produced
ProducedBooks ==
    CASE orderBook.phase = "built" -> {orderBook.full}
      [] orderBook.phase = "aggregated" -> {orderBook.full, orderBook.aggregated}
      [] OTHER -> {}

\* the four level arrays of a book
LevelArrays(b) ==
    {b.zero.bidArray, b.zero.askArray, b.one.bidArray, b.one.askArray}

NonDecreasing(levels) ==
    \A i \in 1..(Len(levels) - 1) :
       /\ levels[i].netSize <= levels[i + 1].netSize
       /\ levels[i].netValue <= levels[i + 1].netValue

LastIsTotalSize(levels) ==
    levels # <<>> =>
        levels[Len(levels)].netSize
          = SumSeq([i \in 1..Len(levels) |-> levels[i].size])

\* C21: in every book build or aggregate produces, on each of the four
\* level arrays netSize and netValue never decrease from one level to the
\* next, and the netSize of the last level is the sum of the sizes of all
\* levels of that array.
C21_CumulativeNonDecreasing ==
    \A b \in ProducedBooks : \A levels \in LevelArrays(b) :
       NonDecreasing(levels) /\ LastIsTotalSize(levels)

\* an aggregated book with two levels on a native and on a complementary
\* array, the second level smaller than the first
C21_Witness ==
    /\ orderBook.phase = "aggregated"
    /\ Len(orderBook.full.zero.bidArray) = 2
    /\ orderBook.full.zero.bidArray[2].size < orderBook.full.zero.bidArray[1].size
    /\ Len(orderBook.aggregated.zero.bidArray) = 2
    /\ Len(orderBook.aggregated.one.askArray) = 2
    /\ orderBook.aggregated.one.askArray[2].netSize
         > orderBook.aggregated.one.askArray[1].netSize

\* C22: in a built book with a native best bid b and a native best ask a,
\* spread = max(a - b, 0), midpoint = (a + b) / 2, the complementary best
\* bid is 1 - a, the complementary best ask 1 - b and the complementary
\* midpoint 1 - the native midpoint; the book of bid 0.60 and ask 0.65 at
\* tick 0.01 has spread 0.05, midpoint 0.625, complementary best bid 0.35,
\* best ask 0.40 and midpoint 0.375.
C22_SpreadAndMidpoint ==
    orderBook.phase = "built" =>
        LET zero == orderBook.full.zero
            one == orderBook.full.one
            a == zero.bestAsk
            b == zero.bestBid
        IN  /\ (a # Null /\ b # Null) =>
                  /\ zero.spread = Max2Int(a - b, 0)
                  /\ 2 * zero.midpoint = a + b
                  /\ one.bestBid = Thousandths - a
                  /\ one.bestAsk = Thousandths - b
                  /\ one.midpoint = Thousandths - zero.midpoint
            /\ (/\ DOMAIN orderBook.priceMap.bids = {600}
                /\ DOMAIN orderBook.priceMap.asks = {650}
                /\ orderBook.tickSize = 10) =>
                  /\ zero.spread = 50 /\ 2 * zero.midpoint = 1250
                  /\ one.bestBid = 350 /\ one.bestAsk = 400
                  /\ 2 * one.midpoint = 750

\* C23: when a side of the price map is empty, the book build returns has
\* null for the best price of that side, for the spread and the midpoint of
\* the native and of the complementary book, and for the complementary best
\* price derived from that side (the best ask from the bids, the best bid
\* from the asks).
C23_EmptySideGivesNull ==
    orderBook.phase = "built" =>
        LET zero == orderBook.full.zero
            one == orderBook.full.one
            derived == [spread |-> {zero.spread, one.spread},
                        midpoint |-> {zero.midpoint, one.midpoint}]
        IN  /\ DOMAIN orderBook.priceMap.bids = {} =>
                  /\ zero.bestBid = Null /\ one.bestAsk = Null
                  /\ derived.spread = {Null} /\ derived.midpoint = {Null}
            /\ DOMAIN orderBook.priceMap.asks = {} =>
                  /\ zero.bestAsk = Null /\ one.bestBid = Null
                  /\ derived.spread = {Null} /\ derived.midpoint = {Null}

\* a book built from a price map with asks and no bid
C23_Witness ==
    /\ orderBook.phase = "built"
    /\ DOMAIN orderBook.priceMap.bids = {}
    /\ DOMAIN orderBook.priceMap.asks # {}
    /\ orderBook.full.zero.bestAsk # Null
    /\ orderBook.full.zero.bestBid = Null


(***************************************************************************)
(* Claims about BtcAggregatedPriceService (SpecPrice)                      *)
(***************************************************************************)
\* the prices the aggregate is computed from in this state
ActivePrices == GetActiveSources(Service)

\* x is the k-th smallest of the prices (NaN is neither below nor above
\* any number)
IsKthSmallest(x, k, prices) ==
    LET n == Len(prices)
        atMost == {i \in 1..n : prices[i] # NaN /\ prices[i] <= x}
        atLeast == {i \in 1..n : prices[i] # NaN /\ prices[i] >= x}
    IN  /\ x # NaN
        /\ \E i \in 1..n : prices[i] = x
        /\ Cardinality(atMost) >= k
        /\ Cardinality(atLeast) >= n - k + 1

\* m is the arithmetic median of the prices: the middle one of an odd
\* number, the mean of the two middle ones of an even number
IsMedian(m, prices) ==
    LET n == Len(prices)
    IN  IF n % 2 = 1
          THEN IsKthSmallest(m, (n + 1) \div 2, prices)
          ELSE \E i \in 1..n, j \in 1..n :
                 /\ IsKthSmallest(prices[i], n \div 2, prices)
                 /\ IsKthSmallest(prices[j], (n \div 2) + 1, prices)
                 /\ 2 * m = prices[i] + prices[j]

\* C24: whenever a handler updated the aggregated price, it did so from at
\* least 3 active USD prices, and the price it stored and reported is their
\* arithmetic median.
C24_UpdateIsMedian ==
    emitted # <<>> =>
        /\ Len(ActivePrices) >= 3
        /\ currentPrice = emitted[Len(emitted)].price
        /\ IsMedian(currentPrice, ActivePrices)

HasPrice(id) == MapHas(sourcePrices, id)

IsPricedUsd(id) == HasPrice(id) /\ Exchanges[id] = "USD"

PricedSources == SelectSeq(ExchangeOrder, HasPrice)

UsdSources == SelectSeq(ExchangeOrder, IsPricedUsd)

\* the prices that count: before a rate was seen the USD prices only, after
\* it every price, a USDT one multiplied by the rate held
ExpectedActive ==
    IF hasValidUsdtRate
      THEN [i \in 1..Len(PricedSources) |->
              IF Exchanges[PricedSources[i]] = "USD"
                THEN sourcePrices[PricedSources[i]]
                ELSE Convert(sourcePrices[PricedSources[i]], usdtRate)]
      ELSE [i \in 1..Len(UsdSources) |-> sourcePrices[UsdSources[i]]]

C27_UpdateExactlyBeyondEpsilon ==
    pxOp.name = "message" =>
        LET prices == ActivePrices
            quorum == Len(prices) >= 3
            medians == IF quorum
                         THEN {Median(sorted) : sorted \in Sorted(prices)}
                         ELSE {}
        IN  /\ emitted # <<>> =>
                  /\ quorum
                  /\ \E m \in medians :
                       /\ DiffersByMoreThan(m, pxOp.price, Epsilon)
                       /\ emitted = <<[price |-> m,
                                       timestamp |-> lastUpdateTimestamp,
                                       activeSources |-> Len(prices),
                                       usdtRate |-> usdtRate]>>
                       /\ currentPrice = m
                  /\ lastUpdateTimestamp > pxOp.timestamp
            /\ (/\ quorum
                /\ \A m \in medians :
                     DiffersByMoreThan(m, pxOp.price, Epsilon)) =>
                  emitted # <<>>
            /\ emitted = <<>> =>
                  /\ currentPrice = pxOp.price
                  /\ lastUpdateTimestamp = pxOp.timestamp

\* a quote was handled with a quorum and moved the median by no more than
\* Epsilon: no update
C27_Witness ==
    /\ pxOp.name = "message" /\ pxOp.kind = "quote"
    /\ Len(ActivePrices) >= 3
    /\ usdtRate # NaN
    /\ emitted = <<>>
    /\ Median(SortAscending(ActivePrices)) # currentPrice


(***************************************************************************)
(* Claims about OrderBookManager's queries (SpecQuery)                     *)
(***************************************************************************)
\* C28: getOrderBookSnapshotByTokenId throws exactly when the token is
\* neither of the pair or the primary token has no price map; otherwise it
\* returns, for BUY, the ask levels and, for SELL, the bid levels of the
\* token's map (the primary token's own map, the complement's derived one).
C28_QueryFailsWithoutMap ==
    queried # NoQuery =>
        LET primary == ClobTokenIds[1]
            known == queried.tokenId \in {ClobTokenIds[1], ClobTokenIds[2]}
            map == IF queried.tokenId = primary
                     THEN priceMaps[primary]
                     ELSE GetInvertedPriceMap(priceMaps, primary)
        IN  /\ queried.threw <=> ~(known /\ MapHas(priceMaps, primary))
            /\ ~queried.threw =>
                  queried.results =
                      {[price |-> p, size |-> s] :
                          <<p, s>> \in
                            IF queried.side = "BUY"
                              THEN {<<q, map.asks[q]>> : q \in DOMAIN map.asks}
                              ELSE {<<q, map.bids[q]>> : q \in DOMAIN map.bids}}

\* a token of another market was asked for while the primary token has a
\* price map: the call threw
C28_Witness ==
    /\ queried.tokenId = "a3"
    /\ queried.threw
    /\ MapHas(priceMaps, ClobTokenIds[1])

\* C29: an asset has a price map only if a snapshot of it was applied, and a
\* query for the primary token made before any snapshot of it throws.
C29_MapOnlyAfterSnapshot ==
    /\ \A a \in DOMAIN priceMaps : a \in DOMAIN mqMaxSnapshotTs
    /\ (queried.tokenId = ClobTokenIds[1]
          /\ ClobTokenIds[1] \notin DOMAIN mqMaxSnapshotTs) => queried.threw

\* C30: a frame of the market feed that is not JSON or lacks the expected
\* fields is dropped: the message listener ends without an exception, and
\* the price maps, the last applied timestamps and the tick sizes are as
\* before it.
C30_MalformedFrameDropped ==
    /\ mqPhase # "threw"
    /\ mqPhase = "dropped" => Ctx = mqPrev


(***************************************************************************)
(* Claims about Projector.project (SpecProject)                            *)
(***************************************************************************)
\* the rows a projected side of the market shows against what the claim
\* says of a side with a asks and b bids
ShowsAsClaimed(side, a, b, minified) ==
    LET shownAsks == Len(side.asks.rows)
        shownBids == Len(side.bids.rows)
    IN  IF minified
          THEN /\ shownAsks = Min2(a, Max2(5, 10 - b))
               /\ shownBids = Min2(b, Max2(5, 10 - shownAsks))
               /\ shownBids = Min2(b, Max2(5, 10 - a))
               /\ shownAsks >= Min2(a, 5)
               /\ shownBids >= Min2(b, 5)
               /\ shownAsks + shownBids <= 10
          ELSE shownAsks = a /\ shownBids = b

\* C31: in minified mode each side of a projected book shows
\* min(len, max(5, 10 - rows of the opposite side)) rows: at least min(len, 5),
\* and both sides together at most 10; without minified mode every level is
\* shown.
C31_MinifiedRows ==
    projection.phase = "projected" =>
        /\ ShowsAsClaimed(projection.out.zero, projection.asks, projection.bids,
                          projection.minified)
        /\ ShowsAsClaimed(projection.out.one, projection.bids, projection.asks,
                          projection.minified)

\* a minified projection of 10 asks and 3 bids: 7 asks and 3 bids are shown
C31_Witness ==
    /\ projection.phase = "projected"
    /\ projection.minified
    /\ projection.asks = 10 /\ projection.bids = 3
    /\ Len(projection.out.zero.asks.rows) = 7
    /\ Len(projection.out.zero.bids.rows) = 3


(***************************************************************************)
(* Further claims about MessageQueue.process (SpecMQ)                      *)
(***************************************************************************)
\* the snapshot carries a price written with 3 decimals
HasThreeDecimals(data) ==
    \E field \in {"bids", "asks"} \cap DOMAIN data :
      \E i \in 1..Len(data[field]) : Len(data[field][i].price.frac) = 3

\* the batch holds a snapshot of asset a with a 3-decimal price
BatchRevealsSmallTick(batch, a) ==
    \E i \in 1..Len(batch) :
      /\ batch[i].type = "book"
      /\ batch[i].assetId = a
      /\ HasThreeDecimals(batch[i].data)

\* C32: a process() call never makes the recorded tick size of an asset
\* coarser; it changes it only to 0.001, from 0.01 or from no record, and
\* exactly when the batch holds a snapshot of the asset with a 3-decimal
\* price.
C32_TickNeverDowngraded ==
    mqPhase = "processed" =>
        \A a \in Assets :
          LET old == mqPrev.marketTickSizeByAsset
              upgraded == /\ ~MapHas(old, a) \/ old[a] = DefaultTick
                          /\ BatchRevealsSmallTick(mqBatch, a)
          IN  IF upgraded
                THEN MapHas(marketTickSizeByAsset, a)
                       /\ marketTickSizeByAsset[a] = SmallTick
                ELSE /\ MapHas(marketTickSizeByAsset, a) <=> MapHas(old, a)
                     /\ MapHas(old, a) => marketTickSizeByAsset[a] = old[a]

\* a snapshot with 2-decimal prices only was processed for an asset whose
\* tick had been upgraded: the tick is still 0.001
C32_Witness ==
    /\ mqPhase = "processed"
    /\ MapHas(mqPrev.marketTickSizeByAsset, "a1")
    /\ mqPrev.marketTickSizeByAsset["a1"] = SmallTick
    /\ \E i \in 1..Len(mqBatch) :
         mqBatch[i].type = "book" /\ mqBatch[i].assetId = "a1"
    /\ ~BatchRevealsSmallTick(mqBatch, "a1")
    /\ marketTickSizeByAsset["a1"] = SmallTick


(***************************************************************************)
(* Claims about the standalone OrderBook (SpecOrderBook)                   *)
(***************************************************************************)
\* the quantity the last update of price p in a depth list asks for, as a
\* one-element sequence; <<>> when the list does not name p
LastUpdateOf(updates, p) ==
    LET at == {i \in 1..Len(updates) : updates[i][1] = p}
    IN  IF at = {} THEN <<>>
        ELSE <<updates[CHOOSE i \in at : \A j \in at : j <= i][2]>>

\* side `after` is side `before` with the depth list merged into it
IsMerged(before, after, updates) ==
    \A p \in ObPrices :
      LET last == LastUpdateOf(updates, p)
      IN  IF last = <<>>
            THEN /\ MapHas(after, p) <=> MapHas(before, p)
                 /\ MapHas(before, p) => after[p] = before[p]
          ELSE IF last[1] = 0 THEN ~MapHas(after, p)
          ELSE MapHas(after, p) /\ after[p] = last[1]

\* side `after` is side `before` with quantity q taken off the level at p
IsDeducted(before, after, p, q) ==
    /\ \A x \in ObPrices \ {p} :
         /\ MapHas(after, x) <=> MapHas(before, x)
         /\ MapHas(before, x) => after[x] = before[x]
    /\ IF ~MapHas(before, p) THEN ~MapHas(after, p)
       ELSE IF before[p] - q <= 0 THEN ~MapHas(after, p)
       ELSE MapHas(after, p) /\ after[p] = before[p] - q

C34_NeverCrossed ==
    (GetBestBid(ob) # <<>> /\ GetBestAsk(ob) # <<>>) =>
        /\ GetBestBid(ob)[1] < GetBestAsk(ob)[1]
        /\ GetSpread(ob)[1] > 0
        /\ GetBestBid(ob)[1] < GetMidPrice(ob)[1]
        /\ GetMidPrice(ob)[1] < GetBestAsk(ob)[1]


(***************************************************************************)
(* Claims about the order of snapshots and deltas in one batch (SpecMQ)    *)
(***************************************************************************)
\* the deltas applied one after the other, none skipped
RECURSIVE FoldDeltas(_, _)
FoldDeltas(map, events) ==
    IF events = <<>> THEN map
    ELSE FoldDeltas(Delta(map, Head(events).data).next, Tail(events))

\* the deltas of asset a in the batch whose timestamp exceeds both the stored
\* last-applied timestamp and every snapshot timestamp of the batch
FreshDeltas(ctx, batch, a) ==
    LET limits == {GetOr(ctx.assetLastBookTs, a, 0)}
                    \cup {batch[i].ts : i \in {j \in 1..Len(batch) :
                            batch[j].assetId = a /\ batch[j].type = "book"}}
        Fresh(e) == \A t \in limits : e.ts > t
    IN  SelectSeq(OfType(batch, a, "price_change"), Fresh)

\* C35: within one process() batch the snapshots of an asset are applied
\* before its deltas whatever their order in the queue, and a delta is
\* applied iff its timestamp is strictly greater than the stored last-applied
\* timestamp and than every snapshot timestamp of the batch: the asset's map
\* is the last snapshot of the batch (the earlier map when there is none)
\* with exactly those deltas applied on top, in queue order.
C35_SnapshotsBeforeDeltas ==
    mqPhase = "processed" =>
        \A a \in Assets :
          LET snaps == OfType(mqBatch, a, "book")
              fresh == FreshDeltas(mqPrev, mqBatch, a)
              base == IF snaps # <<>> THEN Snapshot(snaps[Len(snaps)].data).next
                      ELSE GetOr(mqPrev.priceMaps, a, NoMap)
          IN  IF snaps = <<>> /\ fresh = <<>>
                THEN /\ MapHas(priceMaps, a) <=> MapHas(mqPrev.priceMaps, a)
                     /\ MapHas(priceMaps, a) => priceMaps[a] = mqPrev.priceMaps[a]
                ELSE /\ MapHas(priceMaps, a)
                     /\ priceMaps[a] = FoldDeltas(base, fresh)

\* a delta queued before a snapshot of the same batch, with a larger
\* timestamp, was applied on top of that snapshot
C35_Witness ==
    /\ mqPhase = "processed"
    /\ Len(mqBatch) = 2
    /\ mqBatch[1].type = "price_change" /\ mqBatch[1].assetId = "a1"
    /\ mqBatch[2].type = "book" /\ mqBatch[2].assetId = "a1"
    /\ mqBatch[1].ts > mqBatch[2].ts
    /\ mqBatch[1].ts > GetOr(mqPrev.assetLastBookTs, "a1", 0)
    /\ priceMaps["a1"]
         = Delta(Snapshot(mqBatch[2].data).next, mqBatch[1].data).next
    /\ priceMaps["a1"] # Snapshot(mqBatch[2].data).next

\* the deltas of asset a in the batch whose timestamp exceeds that of every
\* snapshot applied to the asset so far, those of the batch included
NewerThanSnapshots(batch, a) ==
    LET Newer(e) == e.ts > GetOr(mqMaxSnapshotTs, a, 0)
    IN  SelectSeq(OfType(batch, a, "price_change"), Newer)

\* C39: applying a delta never advances an asset's last-applied timestamp,
\* only the snapshots of a batch raise it; so a delta is measured against
\* snapshot timestamps alone, and one older than an already applied delta
\* (but newer than the last snapshot) is still applied.
C39_DeltasDoNotAdvance ==
    mqPhase = "processed" =>
        \A a \in Assets :
          LET snaps == OfType(mqBatch, a, "book")
              old == GetOr(mqPrev.assetLastBookTs, a, 0)
              new == GetOr(assetLastBookTs, a, 0)
              base == IF snaps # <<>> THEN Snapshot(snaps[Len(snaps)].data).next
                      ELSE GetOr(mqPrev.priceMaps, a, NoMap)
              newer == NewerThanSnapshots(mqBatch, a)
          IN  /\ new # old => \E i \in 1..Len(snaps) : snaps[i].ts = new
              /\ snaps = <<>> => new = old
              /\ newer # <<>> => priceMaps[a] = FoldDeltas(base, newer)

\* with no snapshot ever applied, a delta of timestamp 2 and then one of
\* timestamp 1 were both applied, and the last-applied timestamp is still 0
C39_Witness ==
    /\ mqPhase = "processed"
    /\ Len(mqBatch) = 2
    /\ \A i \in 1..2 : mqBatch[i].type = "price_change" /\ mqBatch[i].assetId = "a1"
    /\ mqBatch[1].ts > mqBatch[2].ts
    /\ ~MapHas(mqPrev.assetLastBookTs, "a1")
    /\ assetLastBookTs["a1"] = 0
    /\ priceMaps["a1"] = FoldDeltas(NoMap, mqBatch)
    /\ priceMaps["a1"] # FoldDeltas(NoMap, <<mqBatch[1]>>)


(***************************************************************************)
(* Further claims about WebSocketConnection (SpecWS)                       *)
(***************************************************************************)
\* C36: on every socket open, the first as well as one after a reconnect,
\* the state is CONNECTED by the time the owner's onOpen runs, so the
\* subscription it sends is accepted: the open handler hands exactly one
\* subscription message to the socket.
C36_SubscriptionOnEveryOpen ==
    wsOp.name = "open" =>
        /\ state = "CONNECTED"
        /\ wsClient = "OPEN"
        /\ sent = <<"payload">>

\* a socket has opened, the owner was told CONNECTED and then its onOpen
\* sent the subscription
C36_Witness ==
    /\ wsOp.name = "open"
    /\ notified = <<"CONNECTED">>
    /\ returned = "none"
    /\ sent = <<"payload">>

\* C37: with callbacks that do not throw, the heartbeat timer is armed only
\* while the state is CONNECTED, a reconnect timer is pending only while the
\* state is RECONNECTING, the two are never armed together, and a reconnect
\* timer is armed only when none is pending, so at most one is pending.
C37_TimersFollowState ==
    /\ [](/\ intervalTimer => state = "CONNECTED"
          /\ reconnectTimer => state = "RECONNECTING"
          /\ ~(intervalTimer /\ reconnectTimer))
    /\ [][(wsOp'.name = "close" /\ reconnectTimer') => ~reconnectTimer]_vars

\* the close of a connection that had sent a ping: the heartbeat is stopped
\* and the reconnect timer is pending in RECONNECTING
C37_Witness ==
    /\ wsOp.name = "close"
    /\ notified = <<"RECONNECTING">>
    /\ lastPingTs = 1
    /\ reconnectTimer
    /\ ~intervalTimer
    /\ state = "RECONNECTING"

\* C38: with no attempt cap and an owner that never disconnects or destroys,
\* every close event is eventually followed by the creation of a new socket,
\* and, the endpoint accepting in the end, by the state CONNECTED.
C38_ReconnectsUntilConnected ==
    /\ (wsOp.name = "close") ~> created
    /\ (wsOp.name = "close") ~> (state = "CONNECTED")

\* the reconnect timer has created a socket after more failures in a row
\* than a finite cap would have allowed
C38_Witness ==
    /\ wsOp.name = "timer"
    /\ created
    /\ wsClient = "CONNECTING"
    /\ maxReconnectAttempts = 0
    /\ reconnectAttempts > MaxAttempts


(***************************************************************************)
(* Claims about the price cache and the connections (SpecPriceConn)        *)
(***************************************************************************)
\* the sources whose cached price counts, whatever their connection does
CountingSources ==
    {id \in DOMAIN sourcePrices : Exchanges[id] = "USD" \/ hasValidUsdtRate}

\* C40: the price cached for a source keeps counting toward the quorum and
\* the median while the source's connection is closed or reconnecting; a
\* cached price is removed by stop() only, which clears the prices and the
\* connections and leaves the aggregate price and the FX rate as they were,
\* hasValidPrice() being false from then on.
C40_CachedPriceOutlivesConnection ==
    /\ [](/\ Len(GetActiveSources(Service)) = Cardinality(CountingSources)
          /\ (pxOp.name = "message" /\ emitted # <<>>) =>
                emitted[1].activeSources = Cardinality(CountingSources)
          /\ pxOp.name = "stop" =>
                /\ sourcePrices = EmptyMap
                /\ connections = EmptyMap
                /\ currentPrice = pxOp.price
                /\ lastUpdateTimestamp = pxOp.timestamp
                /\ ~HasValidPrice(Service))
    /\ [][/\ (\E id \in DOMAIN sourcePrices : ~MapHas(sourcePrices', id))
               => pxOp'.name = "stop"
          /\ pxOp'.name \in {"close", "open", "stop"} =>
               /\ usdtRate' = usdtRate
               /\ hasValidUsdtRate' = hasValidUsdtRate
               /\ currentPrice' = currentPrice
          /\ pxOp'.name \in {"close", "open"} =>
               /\ sourcePrices' = sourcePrices
               /\ sourceTypes' = sourceTypes]_vars

\* an update was made on a quorum of exactly three prices, one of them the
\* cached price of a source whose connection is reconnecting
C40_Witness ==
    /\ pxOp.name = "message"
    /\ emitted # <<>>
    /\ emitted[1].activeSources = 3
    /\ \E id \in CountingSources : connections[id] = "RECONNECTING"

====
